---- MODULE Spec2Model ----
(***************************************************************************)
(* A model of the graders of the companion-app backend: the language-     *)
(* implementation grader (functions/src/graders/languageGrader.js) with   *)
(* its helpers, the hardcoded-text classifier of the FileScanner, the     *)
(* code-quality grader (gradeCodeQuality), the component grader           *)
(* (functions/src/graders/componentGrader.js) and the student store       *)
(* (functions/src/api/powerAutomate.js).                                  *)
(*                                                                         *)
(* Strings are sequences of one-character strings, so that split, the two *)
(* regular expressions and the key checks are computed character by       *)
(* character.  JavaScript values are tagged records:                      *)
(*   [t |-> "undefined"], [t |-> "null"], [t |-> "boolean", b |-> ..],    *)
(*   [t |-> "number", n |-> ..], [t |-> "string", s |-> <<chars>>],       *)
(*   [t |-> "array", a |-> <<values>>],                                   *)
(*   [t |-> "object", e |-> <<[k |-> chars, v |-> value], ..>>]           *)
(* with the entries of an object in own-property enumeration order.       *)
(*                                                                         *)
(* Numbers: a weight w is held as the integer 1000*w and a score s as the *)
(* integer 10000*s, so that 1 - totalPenalty/10 is exact.  The score of   *)
(* the component grader is computed as the IEEE-754 double that the code  *)
(* computes.                                                               *)
(***************************************************************************)
EXTENDS Integers, Sequences, FiniteSets, TLC

VARIABLES
    pc,            \* stage of gradeLanguageImplementation
    tfile,         \* environment: the translation file on disk
    fs,            \* environment: the source files on disk, by name
    globResult,    \* environment: what glob.sync returns for sourcePattern
    config,        \* argument: the grading configuration
    context,       \* argument: the invocation context
    translations,  \* let translations
    srcFiles,      \* const srcFiles
    fileIdx,       \* position of the for..of loop in srcFiles (1-based)
    phase,         \* position inside the loop body
    code,          \* const code, the text of the file being scanned
    i18nLastIndex, \* I18N_REGEX.lastIndex
    hcLastIndex,   \* HARDCODED_TEXT_REGEX.lastIndex
    usedKeys,      \* let usedKeys = new Set()
    allTranslationKeys, \* const allTranslationKeys
    report,        \* const report
    result,        \* the returned object, or what was thrown
    arg,           \* the arguments of a helper called on its own
    ret,           \* what the helper returned
    project,       \* environment of gradeCodeQuality: the project at projectPath
    executed,      \* the commands handed to exec, in order
    totalScore,    \* let totalScore of gradeCodeQuality
    maxScore,      \* let maxScore of gradeCodeQuality
    componentFiles,          \* const componentFiles of gradeComponents
    lines,                   \* const lines of analyzeComponent
    lineIndex,               \* position of lines.forEach (1-based)
    mapWithoutKeyLastIndex,  \* mapWithoutKeyRegex.lastIndex
    inlineStyleLastIndex,    \* inlineStyleRegex.lastIndex
    store,         \* the state held by useStudentStore
    calls          \* the calls of the store's functions, in the order issued

vars == <<pc, tfile, fs, globResult, config, context, translations, srcFiles,
          fileIdx, phase, code, i18nLastIndex, hcLastIndex, usedKeys,
          allTranslationKeys, report, result, arg, ret, project, executed,
          totalScore, maxScore, componentFiles, lines, lineIndex,
          mapWithoutKeyLastIndex, inlineStyleLastIndex, store, calls>>

\* the state of gradeCodeQuality that the language grader never touches
QualityVars == <<project, executed, totalScore, maxScore>>

\* the state of gradeComponents and analyzeComponent
ComponentVars == <<componentFiles, lines, lineIndex, mapWithoutKeyLastIndex,
                   inlineStyleLastIndex>>

\* the state of the student store
StoreVars == <<store, calls>>

-----------------------------------------------------------------------------
(* Characters                                                              *)

Whitespace == {" ", "\n", "\t"}
\* the grave accent cannot be written in a string of this language; the
\* token below stands for that one character
Backquote == "BACKQUOTE"
Quotes == {"'", "\"", Backquote}
DigitChars == <<"0", "1", "2", "3", "4", "5", "6", "7", "8", "9">>
Digit == {DigitChars[i] : i \in 1..10}
Lower == {"a", "b", "c", "d", "e", "f", "g", "h", "i", "j", "k", "l", "m",
          "n", "o", "p", "q", "r", "s", "t", "u", "v", "w", "x", "y", "z"}
Upper == {"A", "B", "C", "D", "E", "F", "G", "H", "I", "J", "K", "L", "M",
          "N", "O", "P", "Q", "R", "S", "T", "U", "V", "W", "X", "Y", "Z"}
Letter == Lower \cup Upper
HexDigit == Digit \cup {"a", "b", "c", "d", "e", "f", "A", "B", "C", "D", "E", "F"}

DigitVal(c) == (CHOOSE i \in 1..10 : DigitChars[i] = c) - 1

RECURSIVE IntToChars(_)
\* String(n) for an integer n >= 0, as template literals render an index
IntToChars(n) ==
    IF n < 10 THEN <<DigitChars[n + 1]>>
    ELSE IntToChars(n \div 10) \o <<DigitChars[(n % 10) + 1]>>

Contains(s, c) == \E i \in 1..Len(s) : s[i] = c

AllIn(s, class) == \A i \in 1..Len(s) : s[i] \in class

RECURSIVE Concat(_)
\* the concatenation of a sequence of sequences
Concat(ss) == IF ss = <<>> THEN <<>> ELSE Head(ss) \o Concat(Tail(ss))

RECURSIVE Trim(_)
\* String.prototype.trim
Trim(s) ==
    IF s = <<>> THEN s
    ELSE IF s[1] \in Whitespace THEN Trim(Tail(s))
    ELSE IF s[Len(s)] \in Whitespace THEN Trim(SubSeq(s, 1, Len(s) - 1))
    ELSE s

RECURSIVE Split(_)
\* key.split('.'): the parts between dots; never an empty list
Split(s) ==
    IF ~Contains(s, ".") THEN <<s>>
    ELSE LET d == CHOOSE i \in 1..Len(s) :
                      s[i] = "." /\ \A j \in 1..(i - 1) : s[j] # "."
         IN  <<SubSeq(s, 1, d - 1)>> \o Split(SubSeq(s, d + 1, Len(s)))

-----------------------------------------------------------------------------
(* JavaScript values                                                       *)

Undefined == [t |-> "undefined"]
Null == [t |-> "null"]
Bool(b) == [t |-> "boolean", b |-> b]
Num(n) == [t |-> "number", n |-> n]
Str(s) == [t |-> "string", s |-> s]
Arr(a) == [t |-> "array", a |-> a]
Obj(e) == [t |-> "object", e |-> e]
Entry(k, v) == [k |-> k, v |-> v]

\* ToBoolean, as applied by !x, x && y and x || y
Truthy(v) ==
    CASE v.t = "undefined" -> FALSE
      [] v.t = "null" -> FALSE
      [] v.t = "boolean" -> v.b
      [] v.t = "number" -> v.n # 0
      [] v.t = "string" -> v.s # <<>>
      [] OTHER -> TRUE

\* a canonical array index: "0", or digits without a leading zero
IsIndexString(part) ==
    /\ part # <<>>
    /\ AllIn(part, Digit)
    /\ (Len(part) > 1 => part[1] # "0")

RECURSIVE DigitsToInt(_)
DigitsToInt(ds) ==
    IF ds = <<>> THEN 0
    ELSE 10 * DigitsToInt(SubSeq(ds, 1, Len(ds) - 1)) + DigitVal(ds[Len(ds)])

RECURSIVE LeadingDigits(_)
LeadingDigits(s) ==
    IF s = <<>> \/ s[1] \notin Digit THEN <<>>
    ELSE <<s[1]>> \o LeadingDigits(Tail(s))

RECURSIVE TrimLeft(_)
TrimLeft(s) == IF s # <<>> /\ s[1] \in Whitespace THEN TrimLeft(Tail(s)) ELSE s

\* isNaN(part) for a string part, that is Number(part) is NaN.  Number
\* accepts the empty and the all-blank string (0) and a signed run of
\* decimal digits; the other numeric forms (exponent, radix prefixes,
\* Infinity) need the letters e, x, o, b, I, which model keys do not use.
IsNaN(part) ==
    LET s == Trim(part)
        body == IF s # <<>> /\ s[1] \in {"+", "-"} THEN Tail(s) ELSE s
    IN  IF s = <<>> THEN FALSE
        ELSE ~(body # <<>> /\ AllIn(body, Digit))

\* parseInt(part): blanks are skipped, then a sign, then the longest run of
\* decimal digits; nan when there is no digit
ParseInt(part) ==
    LET s == TrimLeft(part)
        neg == s # <<>> /\ s[1] = "-"
        body == IF s # <<>> /\ s[1] \in {"+", "-"} THEN Tail(s) ELSE s
        ds == LeadingDigits(body)
    IN  IF ds = <<>> THEN [nan |-> TRUE, n |-> 0]
        ELSE [nan |-> FALSE, n |-> IF neg THEN 0 - DigitsToInt(ds) ELSE DigitsToInt(ds)]

\* current[parseInt(part)] on an array
ArrayGet(arr, idx) ==
    IF ~idx.nan /\ idx.n >= 0 /\ idx.n < Len(arr.a) THEN arr.a[idx.n + 1]
    ELSE Undefined

LengthKey == <<"l", "e", "n", "g", "t", "h">>

\* Object.prototype.hasOwnProperty.call(current, part) for a truthy current
\* that is not an array
HasOwnProperty(current, part) ==
    CASE current.t = "object" -> \E i \in 1..Len(current.e) : current.e[i].k = part
      [] current.t = "string" ->
            \/ part = LengthKey
            \/ IsIndexString(part) /\ DigitsToInt(part) < Len(current.s)
      [] OTHER -> FALSE

\* current[part] where HasOwnProperty(current, part)
GetOwn(current, part) ==
    CASE current.t = "object" ->
            current.e[CHOOSE i \in 1..Len(current.e) : current.e[i].k = part].v
      [] current.t = "string" ->
            IF part = LengthKey THEN Num(Len(current.s))
            ELSE Str(<<current.s[DigitsToInt(part) + 1]>>)

RECURSIVE ResolveParts(_, _)
\* the for..of loop of resolveKey over the remaining parts
ResolveParts(current, parts) ==
    IF parts = <<>> THEN current
    ELSE LET part == Head(parts) IN
         IF current.t = "array" THEN
             IF IsNaN(part) THEN Undefined
             ELSE ResolveParts(ArrayGet(current, ParseInt(part)), Tail(parts))
         ELSE IF Truthy(current) /\ HasOwnProperty(current, part) THEN
             ResolveParts(GetOwn(current, part), Tail(parts))
         ELSE Undefined

resolveKey(obj, key) == ResolveParts(obj, Split(key))

\* Object.entries(obj) for a value that is neither null nor undefined
ObjectEntries(obj) ==
    CASE obj.t = "object" -> obj.e
      [] obj.t = "array" ->
            [i \in 1..Len(obj.a) |-> Entry(IntToChars(i - 1), obj.a[i])]
      [] obj.t = "string" ->
            [i \in 1..Len(obj.s) |-> Entry(IntToChars(i - 1), Str(<<obj.s[i]>>))]
      [] OTHER -> <<>>

\* Object.entries throws a TypeError on null and undefined
EntriesThrows(obj) == obj.t \in {"null", "undefined"}

RECURSIVE extractAllKeys(_, _)
extractAllKeys(obj, prefix) ==
    LET entries == ObjectEntries(obj)
        fullKey(key) == IF prefix # <<>> THEN prefix \o <<".">> \o key ELSE key
        ofItem(fk, item, index) ==
            IF item.t \in {"object", "array"}
            THEN extractAllKeys(item, fk \o <<".">> \o IntToChars(index))
            ELSE <<fk \o <<".">> \o IntToChars(index)>>
        ofEntry(en) ==
            IF en.v.t = "object" THEN extractAllKeys(en.v, fullKey(en.k))
            ELSE IF en.v.t = "array" THEN
                Concat([i \in 1..Len(en.v.a) |-> ofItem(fullKey(en.k), en.v.a[i], i - 1)])
            ELSE <<fullKey(en.k)>>
    IN  Concat([i \in 1..Len(entries) |-> ofEntry(entries[i])])

-----------------------------------------------------------------------------
(* The two patterns.  Offsets are 0-based as in JavaScript: At(text, i) is  *)
(* text[i], and lastIndex is the offset where the next exec starts.         *)

At(text, i) == text[i + 1]

\* the least element of a non-empty set of integers
Least(S) == CHOOSE x \in S : \A y \in S : x <= y

I18nPrefix == <<"i", "1", "8", "n", ".", "t", "(">>

\* offset of the quote that ends the key of a call starting at p, or -1:
\* the first quote at or after p + 8
ClosingQuote(text, p) ==
    LET qs == {r \in (p + 8)..(Len(text) - 1) : At(text, r) \in Quotes}
    IN  IF qs = {} THEN 0 - 1 ELSE Least(qs)

\* /i18n\.t\(['"`]([^'"`]+)['"`]\)/ matches at offset p
I18nMatchAt(text, p) ==
    /\ p + 7 < Len(text)
    /\ SubSeq(text, p + 1, p + 7) = I18nPrefix
    /\ At(text, p + 7) \in Quotes
    /\ LET r == ClosingQuote(text, p)
       IN  /\ r > p + 8
           /\ r + 1 < Len(text)
           /\ At(text, r + 1) = ")"

\* a variant of exec that leaves lastIndex where it was when nothing matches
I18nExecKeepingLastIndex(text, lastIndex) ==
    LET ps == {p \in lastIndex..(Len(text) - 1) : I18nMatchAt(text, p)}
    IN  IF ps = {}
        THEN [found |-> FALSE, index |-> 0, group |-> <<>>, lastIndex |-> lastIndex]
        ELSE LET p == Least(ps)
                 r == ClosingQuote(text, p)
             IN  [found |-> TRUE, index |-> p,
                  group |-> SubSeq(text, p + 9, r), lastIndex |-> r + 2]

\* I18N_REGEX.exec(code) with the given lastIndex: the leftmost match at or
\* after lastIndex, or null with lastIndex reset to 0
I18nExec(text, lastIndex) ==
    LET ps == {p \in lastIndex..(Len(text) - 1) : I18nMatchAt(text, p)}
    IN  IF ps = {} THEN [found |-> FALSE, index |-> 0, group |-> <<>>, lastIndex |-> 0]
        ELSE LET p == Least(ps)
                 r == ClosingQuote(text, p)
             IN  [found |-> TRUE, index |-> p,
                  group |-> SubSeq(text, p + 9, r), lastIndex |-> r + 2]

\* offset of the first character after p that is not white space, or -1
FirstNonBlank(text, p) ==
    LET qs == {q \in (p + 1)..(Len(text) - 1) : At(text, q) \notin Whitespace}
    IN  IF qs = {} THEN 0 - 1 ELSE Least(qs)

\* offset of the first '<' or '{' after q, or -1
FirstStop(text, q) ==
    LET rs == {r \in (q + 1)..(Len(text) - 1) : At(text, r) \in {"<", "{"}}
    IN  IF rs = {} THEN 0 - 1 ELSE Least(rs)

\* />\s*([A-Za-z][^<{]+?)\s*</ matches at offset p: a '>', blanks, a letter,
\* at least one more character, and the next '<' before any '{'
HardcodedMatchAt(text, p) ==
    /\ p < Len(text)
    /\ At(text, p) = ">"
    /\ LET q == FirstNonBlank(text, p)
       IN  /\ q >= 0
           /\ At(text, q) \in Letter
           /\ LET r == FirstStop(text, q)
              IN  r >= q + 2 /\ At(text, r) = "<"

\* the lazy group ends at the least k > q with only blanks between k and r
LazyEnd(text, q, r) ==
    Least({k \in (q + 1)..(r - 1) :
              \A j \in (k + 1)..(r - 1) : At(text, j) \in Whitespace})

\* a variant of exec that leaves lastIndex where it was when nothing matches
HardcodedExecKeepingLastIndex(text, lastIndex) ==
    LET ps == {p \in lastIndex..(Len(text) - 1) : HardcodedMatchAt(text, p)}
    IN  IF ps = {}
        THEN [found |-> FALSE, index |-> 0, group |-> <<>>, lastIndex |-> lastIndex]
        ELSE LET p == Least(ps)
                 q == FirstNonBlank(text, p)
                 r == FirstStop(text, q)
             IN  [found |-> TRUE, index |-> p,
                  group |-> SubSeq(text, q + 1, LazyEnd(text, q, r) + 1),
                  lastIndex |-> r + 1]

\* HARDCODED_TEXT_REGEX.exec(code) with the given lastIndex
HardcodedExec(text, lastIndex) ==
    LET ps == {p \in lastIndex..(Len(text) - 1) : HardcodedMatchAt(text, p)}
    IN  IF ps = {} THEN [found |-> FALSE, index |-> 0, group |-> <<>>, lastIndex |-> 0]
        ELSE LET p == Least(ps)
                 q == FirstNonBlank(text, p)
                 r == FirstStop(text, q)
             IN  [found |-> TRUE, index |-> p,
                  group |-> SubSeq(text, q + 1, LazyEnd(text, q, r) + 1),
                  lastIndex |-> r + 1]

ClassNameText == <<"c", "l", "a", "s", "s", "N", "a", "m", "e">>
TestIDText == <<"t", "e", "s", "t", "I", "D">>

\* excludePatterns.some(pattern => pattern.test(text))
Excluded(text) ==
    \/ text # <<>> /\ text[1] \in {"{", "}", "$"}
    \/ text # <<>> /\ AllIn(text, Digit)
    \/ Len(text) \in 1..3 /\ AllIn(text, Lower)
    \/ Len(text) >= 2 /\ text[1] = "#" /\ AllIn(Tail(text), HexDigit)
    \/ text # <<>> /\ AllIn(text, Upper \cup {"_"})
    \/ text = ClassNameText
    \/ text = TestIDText

shouldFlagAsHardcoded(text) ==
    /\ Len(text) > 3
    /\ ~Excluded(text)
    /\ ~AllIn(text, Whitespace)

-----------------------------------------------------------------------------
(* Scoring                                                                 *)

\* x || d
OrDefault(x, d) == IF Truthy(x) THEN x ELSE d

Max(a, b) == IF a >= b THEN a ELSE b

maxPossibleScore == 10000
DefaultMissingKeyWeight == 400
DefaultHardcodedWeight == 300
DefaultMalformedWeight == 200
DefaultUnusedKeyWeight == 100
DefaultMinimumScore == 8000

\* a penalty, held in weight units (1/1000), in score units (1/10000)
ScoreUnits(penalty) == 10 * penalty

\* const weights = {...}
Weights(cfg) ==
    [missingKeys |-> OrDefault(cfg.missingKeyWeight, Num(DefaultMissingKeyWeight)).n,
     hardcodedStrings |-> OrDefault(cfg.hardcodedWeight, Num(DefaultHardcodedWeight)).n,
     malformedKeys |-> OrDefault(cfg.malformedWeight, Num(DefaultMalformedWeight)).n,
     unusedKeys |-> OrDefault(cfg.unusedKeyWeight, Num(DefaultUnusedKeyWeight)).n]

\* const penalties = {...}
Penalties(rep, cfg) ==
    LET weights == Weights(cfg)
    IN  [missingKeys |-> Len(rep.missingKeys) * weights.missingKeys,
         hardcodedStrings |-> Len(rep.hardcodedStrings) * weights.hardcodedStrings,
         malformedKeys |-> Len(rep.malformedKeys) * weights.malformedKeys,
         unusedKeys |-> Len(rep.unusedKeys) * weights.unusedKeys]

calculateScore(rep, cfg) ==
    LET penalties == Penalties(rep, cfg)
        totalPenalty == penalties.missingKeys + penalties.hardcodedStrings
                          + penalties.malformedKeys + penalties.unusedKeys
    IN  Max(0, maxPossibleScore - (ScoreUnits(totalPenalty) \div 10))

\* score >= (config.minimumScore || 0.8)
Success(score, cfg) ==
    score >= OrDefault(cfg.minimumScore, Num(DefaultMinimumScore)).n

-----------------------------------------------------------------------------
(* The steps of the scanning loop                                          *)

BracketIssue == "Use dot notation instead of bracket notation"

\* if (!resolveKey(translations, key))
ReportedMissing(doc, key) == ~Truthy(resolveKey(doc, key))

\* a variant that looks for brackets only in keys that do not resolve
ReportedMalformedWhenMissing(key) ==
    /\ Contains(key, "[") /\ Contains(key, "]")
    /\ ReportedMissing(translations, key)

\* if (key.includes('[') && key.includes(']'))
ReportedMalformed(key) == Contains(key, "[") /\ Contains(key, "]")

\* the body of the first while loop for one match
AfterUsage(rep, file, key, doc) ==
    [rep EXCEPT
        !.missingKeys =
            IF ReportedMissing(doc, key)
            THEN Append(@, [file |-> file, key |-> key]) ELSE @,
        !.malformedKeys =
            IF ReportedMalformed(key)
            THEN Append(@, [file |-> file, key |-> key, issue |-> BracketIssue])
            ELSE @]

\* a variant that records a key only when it is well formed
UsedAfterWellFormedOnly(used, key) ==
    IF ReportedMalformed(key) THEN used ELSE used \cup {key}

\* usedKeys.add(key)
UsedAfter(used, key) == used \cup {key}

\* a variant that keeps only the latest hardcoded finding
AfterHardcodedKeepingLatest(rep, file, group) ==
    LET text == Trim(group)
    IN  [rep EXCEPT
            !.hardcodedStrings =
                IF shouldFlagAsHardcoded(text)
                THEN <<[file |-> file, text |-> text]>> ELSE @]

\* the body of the second while loop for one match
AfterHardcoded(rep, file, group) ==
    LET text == Trim(group)
    IN  [rep EXCEPT
            !.hardcodedStrings =
                IF shouldFlagAsHardcoded(text)
                THEN Append(@, [file |-> file, text |-> text]) ELSE @]

\* for (const key of allTranslationKeys) if (!usedKeys.has(key)) push
UnusedKeys(allKeys, used) == SelectSeq(allKeys, LAMBDA k : k \notin used)

LoadErrorPrefix == "Failed to load translation file: "
NotFoundPrefix == "Translation file not found: "

\* a variant without the existsSync test: readFileSync raises its own error
LoadErrorMessageWithoutExistsTest(tf, cfg) ==
    IF ~tf.exists THEN <<"ENOENT: no such file or directory, open ", cfg.translationFile>>
    ELSE IF ~tf.readable THEN <<"EACCES: permission denied, open ", cfg.translationFile>>
    ELSE <<"Unexpected token in JSON">>

\* the message of the error caught while loading, as its pieces
LoadErrorMessage(tf, cfg) ==
    IF ~tf.exists THEN <<NotFoundPrefix, cfg.translationFile>>
    ELSE IF ~tf.readable THEN <<"EACCES: permission denied, open ", cfg.translationFile>>
    ELSE <<"Unexpected token in JSON">>

-----------------------------------------------------------------------------
(* Inputs                                                                  *)

MaxFiles == 2

\* i18n.t(<quote>key<quote>)
Call(quote, key) == I18nPrefix \o <<quote>> \o key \o <<quote, ")">>
\* >text<
Element(text) == <<">">> \o text \o <<"<">>

KeyA == <<"a">>
KeyKK == <<"k", ".", "k">>
KeyKA == <<"k", ".", "a">>
KeyA1K == <<"a", ".", "1", ".", "k">>
KeyBracket == <<"a", "[", "0", "]">>
KeyBracketZ == <<"z", "[", "0", "]">>
KeyAbsent == <<"k", ".", "z">>

\* {"a": "x", "k": {"a": "y", "k": ""}}
DocNested ==
    Obj(<<Entry(<<"a">>, Str(<<"x">>)),
          Entry(<<"k">>, Obj(<<Entry(<<"a">>, Str(<<"y">>)),
                               Entry(<<"k">>, Str(<<>>))>>))>>)
\* {"a": ["x", {"k": "y"}], "k": 0}
DocArray ==
    Obj(<<Entry(<<"a">>, Arr(<<Str(<<"x">>), Obj(<<Entry(<<"k">>, Str(<<"y">>))>>)>>)),
          Entry(<<"k">>, Num(0))>>)
\* {"a[0]": "x", "a": null}
DocBracket == Obj(<<Entry(KeyBracket, Str(<<"x">>)), Entry(<<"a">>, Null)>>)
\* {}
DocEmpty == Obj(<<>>)

\* what JSON.parse can return for the translation file
TranslationDocs == {DocNested, DocArray, DocBracket, DocEmpty, Null}

TranslationFiles ==
    {[exists |-> FALSE, readable |-> FALSE, valid |-> FALSE, doc |-> Undefined],
     [exists |-> TRUE, readable |-> FALSE, valid |-> FALSE, doc |-> Undefined],
     [exists |-> TRUE, readable |-> TRUE, valid |-> FALSE, doc |-> Undefined]}
    \cup {[exists |-> TRUE, readable |-> TRUE, valid |-> TRUE, doc |-> d] :
             d \in TranslationDocs}

HelloText == <<"H", "e", "l", "l", "o">>
PriceText == <<"P", "R", "I", "C", "E">>
HiText == <<"H", "i">>

\* the texts a source file can hold
SourceTexts ==
    {<<>>,
     Call("'", KeyA),
     Call("\"", KeyKK) \o <<"\n">> \o Call("'", KeyBracket),
     Call(Backquote, KeyA1K) \o Element(PriceText),
     Element(HelloText) \o <<"\n">> \o Element(HiText) \o Call("'", KeyKA),
     Call("'", KeyAbsent) \o <<" ">> \o Call("'", KeyBracketZ) \o Element(HelloText)}

FileNames == <<"f1.js", "f2.js", "f3.js", "f4.js">>

SourceFiles ==
    {[readable |-> FALSE, text |-> <<>>]}
    \cup {[readable |-> TRUE, text |-> t] : t \in SourceTexts}

\* the context of the Functions host, whose log has warn and error methods,
\* and the context the unit tests pass, whose log is a bare function
Contexts == {[logHasWarn |-> TRUE], [logHasWarn |-> FALSE]}

Config(minimum, missing, hardcoded, malformed, unused) ==
    [translationFile |-> "./store/en.json",
     sourcePattern |-> "./**/*.{js,jsx,ts,tsx}",
     ignorePattern |-> "node_modules/**",
     minimumScore |-> minimum,
     missingKeyWeight |-> missing,
     hardcodedWeight |-> hardcoded,
     malformedWeight |-> malformed,
     unusedKeyWeight |-> unused]

\* configurations of a whole run: nothing set, a lower threshold, and
\* heavier weights with the threshold at 0
RunConfigs ==
    {Config(Undefined, Undefined, Undefined, Undefined, Undefined),
     Config(Num(5000), Undefined, Undefined, Undefined, Undefined),
     Config(Num(0), Num(5000), Num(0), Num(2000), Undefined)}

EmptyReport ==
    [missingKeys |-> <<>>, hardcodedStrings |-> <<>>, unusedKeys |-> <<>>,
     malformedKeys |-> <<>>, summary |-> [filled |-> FALSE]]

NoResult == [kind |-> "none"]

\* no helper is called on its own during a run of the grader
NoCall == [fn |-> "none"]

\* gradeCodeQuality is not running
NoProject == [configFile |-> "none"]
QualityIdle ==
    /\ project = NoProject
    /\ executed = <<>>
    /\ totalScore = 0
    /\ maxScore = 0

\* gradeComponents is not running
ComponentIdle ==
    /\ componentFiles = <<>>
    /\ lines = <<>>
    /\ lineIndex = 0
    /\ mapWithoutKeyLastIndex = 0
    /\ inlineStyleLastIndex = 0

\* lines 15-17 of api/powerAutomate.js: the store as create() leaves it
InitialStore == [student |-> Null, loading |-> FALSE, error |-> Null]
StoreIdle ==
    /\ store = InitialStore
    /\ calls = <<>>

-----------------------------------------------------------------------------
(* gradeLanguageImplementation                                             *)

Locals ==
    /\ pc = "LoadingTranslations"
    /\ translations = Obj(<<>>)
    /\ srcFiles = <<>>
    /\ fileIdx = 0
    /\ phase = "none"
    /\ code = <<>>
    /\ i18nLastIndex = 0
    /\ hcLastIndex = 0
    /\ usedKeys = {}
    /\ allTranslationKeys = <<>>
    /\ report = EmptyReport
    /\ result = NoResult

Init ==
    /\ tfile \in TranslationFiles
    /\ \E n \in 0..MaxFiles :
          /\ globResult = [i \in 1..n |-> FileNames[i]]
          /\ fs \in [{FileNames[i] : i \in 1..n} -> SourceFiles]
    /\ config \in RunConfigs
    /\ context \in Contexts
    /\ Locals
    /\ arg = NoCall
    /\ ret = NoResult
    /\ QualityIdle
    /\ ComponentIdle
    /\ StoreIdle

\* what no stage of gradeLanguageImplementation writes
Env == <<tfile, fs, globResult, config, context, arg, ret, QualityVars,
         ComponentVars, StoreVars>>

\* lines 66-84: load and parse the translation file
LoadTranslations ==
    /\ pc = "LoadingTranslations"
    /\ IF tfile.exists /\ tfile.readable /\ tfile.valid
       THEN /\ translations' = tfile.doc
            /\ pc' = "Scanning"
            /\ phase' = "glob"
            /\ UNCHANGED result
       ELSE /\ pc' = "Failed"
            /\ result' = [kind |-> "return", success |-> FALSE, score |-> 0,
                          report |-> [error |-> <<LoadErrorPrefix>>
                                                  \o LoadErrorMessage(tfile, config)]]
            /\ UNCHANGED <<translations, phase>>
    /\ UNCHANGED <<Env, srcFiles, fileIdx, code, i18nLastIndex, hcLastIndex,
                   usedKeys, allTranslationKeys, report>>

\* lines 91-98: enumerate the source files
EnumerateFiles ==
    /\ pc = "Scanning" /\ phase = "glob"
    /\ srcFiles' = globResult
    /\ fileIdx' = 1
    /\ phase' = "read"
    /\ UNCHANGED <<Env, pc, translations, code, i18nLastIndex, hcLastIndex,
                   usedKeys, allTranslationKeys, report, result>>

\* lines 101-103 and 135-137: read the next file; a failed read is caught,
\* and the handler calls context.log.warn
ReadFile ==
    /\ pc = "Scanning" /\ phase = "read" /\ fileIdx <= Len(srcFiles)
    /\ LET file == srcFiles[fileIdx]
       IN  IF fs[file].readable
           THEN /\ code' = fs[file].text
                /\ phase' = "i18n"
                /\ UNCHANGED <<pc, fileIdx, result>>
           ELSE IF context.logHasWarn
           THEN /\ fileIdx' = fileIdx + 1
                /\ UNCHANGED <<pc, code, phase, result>>
           ELSE /\ pc' = "Thrown"
                /\ result' = [kind |-> "throw",
                              error |-> "TypeError: context.log.warn is not a function"]
                /\ UNCHANGED <<fileIdx, code, phase>>
    /\ UNCHANGED <<Env, translations, srcFiles, i18nLastIndex, hcLastIndex,
                   usedKeys, allTranslationKeys, report>>

\* lines 106-124: one turn of the first while loop
ScanUsage ==
    /\ pc = "Scanning" /\ phase = "i18n"
    /\ LET match == I18nExec(code, i18nLastIndex)
       IN  /\ i18nLastIndex' = match.lastIndex
           /\ IF match.found
              THEN /\ usedKeys' = UsedAfter(usedKeys, match.group)
                   /\ report' = AfterUsage(report, srcFiles[fileIdx], match.group,
                                           translations)
                   /\ UNCHANGED phase
              ELSE /\ phase' = "hardcoded"
                   /\ UNCHANGED <<usedKeys, report>>
    /\ UNCHANGED <<Env, pc, translations, srcFiles, fileIdx, code, hcLastIndex,
                   allTranslationKeys, result>>

\* lines 127-133: one turn of the second while loop
ScanHardcoded ==
    /\ pc = "Scanning" /\ phase = "hardcoded"
    /\ LET hcMatch == HardcodedExec(code, hcLastIndex)
       IN  /\ hcLastIndex' = hcMatch.lastIndex
           /\ IF hcMatch.found
              THEN /\ report' = AfterHardcoded(report, srcFiles[fileIdx], hcMatch.group)
                   /\ UNCHANGED <<phase, fileIdx, code>>
              ELSE /\ phase' = "read"
                   /\ fileIdx' = fileIdx + 1
                   /\ code' = <<>>
                   /\ UNCHANGED report
    /\ UNCHANGED <<Env, pc, translations, srcFiles, i18nLastIndex, usedKeys,
                   allTranslationKeys, result>>

\* line 101: the for..of loop is exhausted
EndScan ==
    /\ pc = "Scanning" /\ phase = "read" /\ fileIdx > Len(srcFiles)
    /\ pc' = "CrossReferencing"
    /\ phase' = "none"
    /\ UNCHANGED <<Env, translations, srcFiles, fileIdx, code, i18nLastIndex,
                   hcLastIndex, usedKeys, allTranslationKeys, report, result>>

\* lines 141-146: the unused keys; Object.entries throws on null
CrossReference ==
    /\ pc = "CrossReferencing"
    /\ IF EntriesThrows(translations)
       THEN /\ pc' = "Thrown"
            /\ result' = [kind |-> "throw",
                          error |-> "TypeError: Cannot convert undefined or null to object"]
            /\ UNCHANGED <<allTranslationKeys, report>>
       ELSE /\ allTranslationKeys' = extractAllKeys(translations, <<>>)
            /\ report' = [report EXCEPT
                            !.unusedKeys = @ \o UnusedKeys(allTranslationKeys', usedKeys)]
            /\ pc' = "Scoring"
            /\ UNCHANGED result
    /\ UNCHANGED <<Env, translations, srcFiles, fileIdx, phase, code,
                   i18nLastIndex, hcLastIndex, usedKeys>>

\* a variant that takes the unused count as declared minus used
SummaryWithUnusedBySubtraction(rep, files, allKeys, used, score) ==
    [filled |-> TRUE,
     filesScanned |-> Len(files),
     totalKeys |-> Len(allKeys),
     usedKeys |-> Cardinality(used),
     missingKeysCount |-> Len(rep.missingKeys),
     hardcodedStringsCount |-> Len(rep.hardcodedStrings),
     unusedKeysCount |-> Len(allKeys) - Cardinality(used),
     malformedKeysCount |-> Len(rep.malformedKeys),
     score |-> score]

\* report.summary = {...}
Summary(rep, files, allKeys, used, score) ==
    [filled |-> TRUE,
     filesScanned |-> Len(files),
     totalKeys |-> Len(allKeys),
     usedKeys |-> Cardinality(used),
     missingKeysCount |-> Len(rep.missingKeys),
     hardcodedStringsCount |-> Len(rep.hardcodedStrings),
     unusedKeysCount |-> Len(rep.unusedKeys),
     malformedKeysCount |-> Len(rep.malformedKeys),
     score |-> score]

\* lines 149-169: score, summary, success and the returned object
Scoring ==
    /\ pc = "Scoring"
    /\ LET score == calculateScore(report, config)
       IN  /\ report' = [report EXCEPT
                           !.summary = Summary(report, srcFiles, allTranslationKeys,
                                               usedKeys, score)]
           /\ result' = [kind |-> "return", success |-> Success(score, config),
                         score |-> score, report |-> report']
    /\ pc' = "Done"
    /\ UNCHANGED <<Env, translations, srcFiles, fileIdx, phase, code,
                   i18nLastIndex, hcLastIndex, usedKeys, allTranslationKeys>>

Next ==
    \/ LoadTranslations
    \/ EnumerateFiles
    \/ ReadFile
    \/ ScanUsage
    \/ ScanHardcoded
    \/ EndScan
    \/ CrossReference
    \/ Scoring

Spec == Init /\ [][Next]_vars

-----------------------------------------------------------------------------
(* Properties of a run                                                     *)

Range(seq) == {seq[i] : i \in 1..Len(seq)}

Loaded == tfile.exists /\ tfile.readable /\ tfile.valid

RECURSIVE UsagesIn(_, _)
\* the keys of the call sites that repeated matching finds in a text
UsagesIn(text, from) ==
    LET m == I18nExec(text, from)
    IN  IF m.found THEN <<m.group>> \o UsagesIn(text, m.lastIndex) ELSE <<>>

\* the discovered files that could be read, in discovery order
ReadableFiles == SelectSeq(globResult, LAMBDA f : fs[f].readable)

\* every key captured from a call site of a readable file
CapturedKeys == UNION {Range(UsagesIn(fs[f].text, 0)) : f \in Range(ReadableFiles)}

\* C1: in a completed run, unusedKeys is extractAllKeys(document) without
\* the keys captured from the call sites of the scanned files: every listed
\* key is declared and never referenced, and every declared key that was
\* never referenced is listed.
C1_UnusedIsDeclaredMinusUsed ==
    pc = "Done" =>
        LET declared == extractAllKeys(tfile.doc, <<>>)
            unused == result.report.unusedKeys
        IN  /\ unused = SelectSeq(declared, LAMBDA k : k \notin CapturedKeys)
            /\ \A k \in Range(unused) : k \in Range(declared) /\ k \notin CapturedKeys
            /\ \A k \in Range(declared) : k \notin CapturedKeys => k \in Range(unused)

\* a completed run that lists some declared keys but not all of them, and
\* in which a referenced, declared key is also reported as malformed
C1_Witness ==
    /\ pc = "Done"
    /\ result.report.unusedKeys # <<>>
    /\ Len(result.report.unusedKeys) < Len(allTranslationKeys)
    /\ \E i \in 1..Len(report.malformedKeys) :
          report.malformedKeys[i].key \in Range(allTranslationKeys)

\* C2: a usage of key K is appended to missingKeys exactly when resolving K
\* against the document yields undefined; a usage whose key resolves to a
\* defined value is never reported as missing.
C2_MissingExactlyWhenUndefined ==
    [][(pc = "Scanning" /\ phase = "i18n" /\ I18nExec(code, i18nLastIndex).found) =>
          LET key == I18nExec(code, i18nLastIndex).group
              entry == [file |-> srcFiles[fileIdx], key |-> key]
          IN  IF resolveKey(translations, key) = Undefined
              THEN report'.missingKeys = Append(report.missingKeys, entry)
              ELSE report'.missingKeys = report.missingKeys]_vars

\* C3: when the translation file is absent, unreadable or not valid JSON,
\* the run returns success=false and score=0 with a report that holds only
\* an error string (naming 'Translation file not found' when the file is
\* absent), and no later stage runs: nothing is enumerated, read or scanned.
C3_LoadFailureShortCircuits ==
    /\ ~Loaded => pc \in {"LoadingTranslations", "Failed"}
    /\ pc = "Failed" =>
          /\ ~Loaded
          /\ result.kind = "return"
          /\ result.success = FALSE
          /\ result.score = 0
          /\ DOMAIN result.report = {"error"}
          /\ result.report.error[1] = LoadErrorPrefix
          /\ (~tfile.exists => NotFoundPrefix \in Range(result.report.error))
          /\ srcFiles = <<>> /\ fileIdx = 0 /\ phase = "none" /\ code = <<>>
          /\ usedKeys = {} /\ report = EmptyReport

\* a failed run whose translation file is absent while source files exist
C3_Witness ==
    /\ pc = "Failed"
    /\ ~tfile.exists
    /\ globResult # <<>>
    /\ \E f \in Range(globResult) : fs[f].text # <<>>

\* C4: failure is reachable from LoadingTranslations only: a run whose
\* translation file was read and parsed never ends with an error result or
\* an exception, and what it returns has a populated summary.
C4_FailureOnlyFromLoading ==
    Loaded =>
        /\ pc \notin {"Failed", "Thrown"}
        /\ result.kind \in {"none", "return"}
        /\ (result.kind = "return" => result.report.summary.filled)

\* C5: if reading one discovered file fails, that file is skipped and the
\* run continues with the remaining files.
C5_FileFailureIsSkipped ==
    [][(pc = "Scanning" /\ phase = "read" /\ fileIdx <= Len(srcFiles)
          /\ ~fs[srcFiles[fileIdx]].readable) =>
          /\ pc' = "Scanning" /\ phase' = "read"
          /\ fileIdx' = fileIdx + 1
          /\ report' = report /\ usedKeys' = usedKeys]_vars

\* the malformed-key findings of one file, in match order
MalformedIn(file) ==
    LET keys == SelectSeq(UsagesIn(fs[file].text, 0),
                          LAMBDA k : Contains(k, "[") /\ Contains(k, "]"))
    IN  [i \in 1..Len(keys) |->
            [file |-> file, key |-> keys[i], issue |-> BracketIssue]]

\* C6: every usage whose key has both '[' and ']' yields a malformedKeys
\* entry with the bracket-notation issue, whether or not the key resolves.
C6_BracketKeysAreMalformed ==
    pc \in {"CrossReferencing", "Scoring", "Done"} =>
        report.malformedKeys =
            Concat([i \in 1..Len(ReadableFiles) |-> MalformedIn(ReadableFiles[i])])

\* a run that reports one bracket key that resolves and is not missing, and
\* another that is both malformed and missing
C6_Witness ==
    /\ pc = "Done"
    /\ \E i \in 1..Len(report.malformedKeys) :
          LET k == report.malformedKeys[i].key
          IN  /\ resolveKey(translations, k) # Undefined
              /\ \A j \in 1..Len(report.missingKeys) : report.missingKeys[j].key # k
    /\ \E i \in 1..Len(report.malformedKeys), j \in 1..Len(report.missingKeys) :
          /\ report.malformedKeys[i].key = report.missingKeys[j].key
          /\ report.malformedKeys[i].file = report.missingKeys[j].file

-----------------------------------------------------------------------------
(* calculateScore and the threshold over every report shape: the run is    *)
(* taken up at the Scoring stage with reports of every combination of      *)
(* list lengths and configurations of every combination of settings.       *)

MaxFindings == 2

\* a weight is not set, 0, -1.0 or 5.0
WeightValues == {Undefined, Num(0), Num(0 - 1000), Num(5000)}
\* minimumScore is not set, 0, 0.5 or 1
MinimumValues == {Undefined, Num(0), Num(5000), Num(10000)}

ScoreConfigs ==
    {Config(m, a, b, c, d) :
        m \in MinimumValues, a \in WeightValues, b \in WeightValues,
        c \in WeightValues, d \in WeightValues}

MissingFindings(n) == [i \in 1..n |-> [file |-> FileNames[1], key |-> KeyAbsent]]
HardcodedFindings(n) == [i \in 1..n |-> [file |-> FileNames[1], text |-> HelloText]]
MalformedFindings(n) ==
    [i \in 1..n |-> [file |-> FileNames[1], key |-> KeyBracketZ, issue |-> BracketIssue]]
UnusedFindings(n) == [i \in 1..n |-> <<"k">> \o IntToChars(i)]

ScoreInit ==
    /\ pc = "Scoring"
    /\ tfile = [exists |-> TRUE, readable |-> TRUE, valid |-> TRUE, doc |-> DocEmpty]
    /\ globResult = <<>>
    /\ fs \in [{} -> SourceFiles]
    /\ config \in ScoreConfigs
    /\ context = [logHasWarn |-> TRUE]
    /\ translations = DocEmpty
    /\ srcFiles = <<>>
    /\ fileIdx = 1
    /\ phase = "none"
    /\ code = <<>>
    /\ i18nLastIndex = 0
    /\ hcLastIndex = 0
    /\ usedKeys = {}
    /\ \E a \in 0..MaxFindings, b \in 0..MaxFindings,
          c \in 0..MaxFindings, d \in 0..MaxFindings :
          /\ report = [missingKeys |-> MissingFindings(a),
                       hardcodedStrings |-> HardcodedFindings(b),
                       malformedKeys |-> MalformedFindings(c),
                       unusedKeys |-> UnusedFindings(d),
                       summary |-> [filled |-> FALSE]]
          /\ allTranslationKeys = UnusedFindings(d)
    /\ result = NoResult
    /\ arg = NoCall
    /\ ret = NoResult
    /\ QualityIdle
    /\ ComponentIdle
    /\ StoreIdle

ScoreNext == Scoring

ScoreSpec == ScoreInit /\ [][ScoreNext]_vars

\* the weight of a kind as the specification reads it: the configured
\* value whatever it is, the default only when none is configured
ConfiguredOr(x, d) == IF x.t = "undefined" THEN d ELSE x.n

\* C7: the score is max(0, 1 - totalPenalty/10), totalPenalty being the sum
\* over the four kinds of count x weight, and the weight of a kind being
\* the configured value, or the default only when none is configured.
C7_ScoreIsWeightedPenalty ==
    pc = "Done" =>
        LET totalPenalty ==
                Len(report.missingKeys)
                    * ConfiguredOr(config.missingKeyWeight, DefaultMissingKeyWeight)
                + Len(report.hardcodedStrings)
                    * ConfiguredOr(config.hardcodedWeight, DefaultHardcodedWeight)
                + Len(report.malformedKeys)
                    * ConfiguredOr(config.malformedWeight, DefaultMalformedWeight)
                + Len(report.unusedKeys)
                    * ConfiguredOr(config.unusedKeyWeight, DefaultUnusedKeyWeight)
        IN  result.score = Max(0, maxPossibleScore - (ScoreUnits(totalPenalty) \div 10))

\* C8: for every report and configuration the score lies in [0, 1].
C8_ScoreInUnitInterval ==
    pc = "Done" => result.score >= 0 /\ result.score <= maxPossibleScore

\* the report with one more finding of a kind
WithOneMore(rep, kind) ==
    CASE kind = "missingKeys" ->
            [rep EXCEPT !.missingKeys = Append(@, [file |-> FileNames[1], key |-> KeyAbsent])]
      [] kind = "hardcodedStrings" ->
            [rep EXCEPT !.hardcodedStrings = Append(@, [file |-> FileNames[1], text |-> HelloText])]
      [] kind = "malformedKeys" ->
            [rep EXCEPT !.malformedKeys =
                Append(@, [file |-> FileNames[1], key |-> KeyBracketZ, issue |-> BracketIssue])]
      [] kind = "unusedKeys" ->
            [rep EXCEPT !.unusedKeys = Append(@, KeyAbsent)]

FindingKinds == {"missingKeys", "hardcodedStrings", "malformedKeys", "unusedKeys"}

\* C9: adding one more finding of any kind never yields a higher score.
C9_ScoreMonotone ==
    pc = "Done" =>
        \A kind \in FindingKinds :
            calculateScore(WithOneMore(report, kind), config) <= result.score

\* C10: success is true exactly when score >= the configured minimumScore,
\* 0.8 being the threshold only when no minimumScore is configured.
C10_SuccessIffScoreAtLeastMinimum ==
    pc = "Done" =>
        (result.success <=>
            result.score >= ConfiguredOr(config.minimumScore, DefaultMinimumScore))

-----------------------------------------------------------------------------
(* resolveKey and extractAllKeys called on their own, as the unit tests do: *)
(* a document and a key path are drawn, the keys of the document are        *)
(* extracted and the key path is resolved.                                  *)

KeyK == <<"k">>
KeyDotK == <<".", "k">>
KeyAK == <<"a", ".", "k">>
KeyA0 == <<"a", ".", "0">>
KeyA00 == <<"a", ".", "0", ".", "0">>
KeyA0Length == <<"a", ".", "0", ".">> \o LengthKey
KeyA01K == <<"a", ".", "0", "1", ".", "k">>
KeyAMinus0 == <<"a", ".", "-", "0">>

\* {"": {"k": "x"}}
DocEmptyName == Obj(<<Entry(<<>>, Obj(<<Entry(KeyK, Str(<<"x">>))>>))>>)
\* {"": {"k": "x"}, "k": "y"}
DocEmptyNameTwice ==
    Obj(<<Entry(<<>>, Obj(<<Entry(KeyK, Str(<<"x">>))>>)), Entry(KeyK, Str(<<"y">>))>>)
\* {"a.k": "x", "a": {"k": "y"}}
DocDottedName ==
    Obj(<<Entry(KeyAK, Str(<<"x">>)), Entry(KeyA, Obj(<<Entry(KeyK, Str(<<"y">>))>>))>>)
\* {"a": {}, "k": []}
DocHollow == Obj(<<Entry(KeyA, Obj(<<>>)), Entry(KeyK, Arr(<<>>))>>)
\* {"a": [["x"], true], "k": {"k": null}}
DocDeep ==
    Obj(<<Entry(KeyA, Arr(<<Arr(<<Str(<<"x">>)>>), Bool(TRUE)>>)),
          Entry(KeyK, Obj(<<Entry(KeyK, Null)>>))>>)

\* the documents the helpers are called with; the names of a mapping are
\* distinct, as JSON.parse leaves them
KeyDocs ==
    {DocNested, DocArray, DocBracket, DocEmpty, DocEmptyName, DocEmptyNameTwice,
     DocDottedName, DocHollow, DocDeep}

KeyPaths ==
    {KeyA, KeyK, KeyKK, KeyKA, KeyA1K, KeyBracket, KeyAbsent, KeyDotK, KeyAK,
     KeyA0, KeyA00, KeyA0Length, KeyA01K, KeyAMinus0}

KeyInit ==
    /\ pc = "Extracting"
    /\ arg \in [fn : {"keys"}, doc : KeyDocs, key : KeyPaths]
    /\ ret = [keys |-> <<>>, value |-> Undefined]
    /\ tfile = [exists |-> TRUE, readable |-> TRUE, valid |-> TRUE, doc |-> DocEmpty]
    /\ globResult = <<>>
    /\ fs \in [{} -> SourceFiles]
    /\ config = Config(Undefined, Undefined, Undefined, Undefined, Undefined)
    /\ context = [logHasWarn |-> TRUE]
    /\ translations = DocEmpty
    /\ srcFiles = <<>>
    /\ fileIdx = 0
    /\ phase = "none"
    /\ code = <<>>
    /\ i18nLastIndex = 0
    /\ hcLastIndex = 0
    /\ usedKeys = {}
    /\ allTranslationKeys = <<>>
    /\ report = EmptyReport
    /\ result = NoResult
    /\ QualityIdle
    /\ ComponentIdle
    /\ StoreIdle

\* extractAllKeys(doc)
ExtractKeys ==
    /\ pc = "Extracting"
    /\ ret' = [ret EXCEPT !.keys = extractAllKeys(arg.doc, <<>>)]
    /\ pc' = "Resolving"
    /\ UNCHANGED <<tfile, fs, globResult, config, context, translations, srcFiles,
                   fileIdx, phase, code, i18nLastIndex, hcLastIndex, usedKeys,
                   allTranslationKeys, report, result, arg, QualityVars,
                   ComponentVars, StoreVars>>

\* resolveKey(doc, key)
ResolveKey ==
    /\ pc = "Resolving"
    /\ ret' = [ret EXCEPT !.value = resolveKey(arg.doc, arg.key)]
    /\ pc' = "Resolved"
    /\ UNCHANGED <<tfile, fs, globResult, config, context, translations, srcFiles,
                   fileIdx, phase, code, i18nLastIndex, hcLastIndex, usedKeys,
                   allTranslationKeys, report, result, arg, QualityVars,
                   ComponentVars, StoreVars>>

KeyNext == ExtractKeys \/ ResolveKey

KeySpec == KeyInit /\ [][KeyNext]_vars

\* C11: every key path that extractAllKeys returns for a document resolves
\* in that document: resolveKey(D, K) is not undefined.
C11_ExtractedKeysResolve ==
    pc # "Extracting" =>
        \A i \in 1..Len(ret.keys) : resolveKey(arg.doc, ret.keys[i]) # Undefined

\* C12: a non-empty key path that extractAllKeys does not return for a
\* document does not resolve in it: resolveKey(D, K) is undefined.
C12_OtherKeysAreUndefined ==
    (pc = "Resolved" /\ arg.key # <<>> /\ arg.key \notin Range(ret.keys)) =>
        ret.value = Undefined

RECURSIVE JoinDots(_)
\* the segments of a path joined with dots
JoinDots(path) ==
    IF Len(path) = 1 THEN path[1]
    ELSE path[1] \o <<".">> \o JoinDots(Tail(path))

RECURSIVE LeafPaths(_, _)
\* the dot-paths of the scalar leaves below a node reached by a path:
\* depth first, the names of a mapping in their order, the elements of a
\* sequence by index
LeafPaths(node, path) ==
    CASE node.t = "object" ->
            Concat([i \in 1..Len(node.e) |->
                        LeafPaths(node.e[i].v, Append(path, node.e[i].k))])
      [] node.t = "array" ->
            Concat([i \in 1..Len(node.a) |->
                        LeafPaths(node.a[i], Append(path, IntToChars(i - 1)))])
      [] OTHER -> <<JoinDots(path)>>

\* C13: extractAllKeys returns exactly the dot-paths of the scalar leaves
\* of the document in depth-first order; no path of a mapping or sequence
\* node is returned, a scalar element of a sequence gives prefix.index, and
\* an empty mapping gives nothing.
C13_KeysAreLeafPaths ==
    pc # "Extracting" => ret.keys = LeafPaths(arg.doc, <<>>)

\* C14: the sequence that extractAllKeys returns holds no key path twice.
C14_NoDuplicateKeys ==
    pc # "Extracting" =>
        \A i, j \in 1..Len(ret.keys) : i # j => ret.keys[i] # ret.keys[j]

-----------------------------------------------------------------------------
(* The two classifiers of hardcoded text: shouldFlagAsHardcoded of the      *)
(* language grader and FileScanner.shouldFlagAsHardcoded.  Each is called   *)
(* by its scanner on the trimmed capture of the element-text pattern; here  *)
(* a text is drawn and both call sites are applied to it.                   *)

\* excludePatterns.some(...) of the scanner, without the colour pattern
FileScanner_ExcludedWithoutColour(text) ==
    \/ text # <<>> /\ text[1] \in {"{", "}", "$"}
    \/ text # <<>> /\ AllIn(text, Digit)
    \/ Len(text) \in 1..3 /\ AllIn(text, Lower)
    \/ text # <<>> /\ AllIn(text, Upper \cup {"_"})
    \/ text = ClassNameText
    \/ text = TestIDText

\* excludePatterns.some(pattern => pattern.test(text)) of the scanner
FileScanner_Excluded(text) ==
    \/ text # <<>> /\ text[1] \in {"{", "}", "$"}
    \/ text # <<>> /\ AllIn(text, Digit)
    \/ Len(text) \in 1..3 /\ AllIn(text, Lower)
    \/ Len(text) >= 2 /\ text[1] = "#" /\ AllIn(Tail(text), HexDigit)
    \/ text # <<>> /\ AllIn(text, Upper \cup {"_"})
    \/ text = ClassNameText
    \/ text = TestIDText

FileScanner_shouldFlagAsHardcoded(text) ==
    /\ Len(text) > 3
    /\ ~FileScanner_Excluded(text)
    /\ ~AllIn(text, Whitespace)

MaxTextLen == 4

\* one character of each class that the patterns tell apart
TextChars == {"{", "$", "#", "_", " ", "1", "a", "z", "A", "Z"}

\* the texts of n characters
TextsOfLen(n) == [1..n -> TextChars]

HelloWorldText == HelloText \o <<" ">> \o <<"W", "o", "r", "l", "d">>

\* the texts the call sites are given before trim: every string over
\* TextChars up to the bound, which is more than the element-text pattern
\* captures (a capture starts with a letter), and some longer ones
CapturedTexts ==
    UNION {TextsOfLen(n) : n \in 0..MaxTextLen}
    \cup {ClassNameText, TestIDText, ClassNameText \o <<"s">>,
          <<" ">> \o TestIDText \o <<"\n">>, <<"}">> \o HelloText,
          <<"\t">> \o HelloWorldText \o <<" ">>, <<" ">> \o PriceText, HiText}

ClassifyInit ==
    /\ pc = "Classifying"
    /\ arg \in [fn : {"classify"}, text : CapturedTexts]
    /\ ret = [grader |-> FALSE, scanner |-> FALSE]
    /\ tfile = [exists |-> TRUE, readable |-> TRUE, valid |-> TRUE, doc |-> DocEmpty]
    /\ globResult = <<>>
    /\ fs \in [{} -> SourceFiles]
    /\ config = Config(Undefined, Undefined, Undefined, Undefined, Undefined)
    /\ context = [logHasWarn |-> TRUE]
    /\ translations = DocEmpty
    /\ srcFiles = <<>>
    /\ fileIdx = 0
    /\ phase = "none"
    /\ code = <<>>
    /\ i18nLastIndex = 0
    /\ hcLastIndex = 0
    /\ usedKeys = {}
    /\ allTranslationKeys = <<>>
    /\ report = EmptyReport
    /\ result = NoResult
    /\ QualityIdle
    /\ ComponentIdle
    /\ StoreIdle

\* languageGrader.js lines 129-130: const text = hcMatch[1].trim();
\* shouldFlagAsHardcoded(text)
GraderClassifies ==
    /\ pc = "Classifying"
    /\ ret' = [ret EXCEPT !.grader = shouldFlagAsHardcoded(Trim(arg.text))]
    /\ pc' = "ClassifyingInScanner"
    /\ UNCHANGED <<tfile, fs, globResult, config, context, translations, srcFiles,
                   fileIdx, phase, code, i18nLastIndex, hcLastIndex, usedKeys,
                   allTranslationKeys, report, result, arg, QualityVars,
                   ComponentVars, StoreVars>>

\* FileScanner.analyzeI18nUsage: const text = match[1].trim();
\* this.shouldFlagAsHardcoded(text)
ScannerClassifies ==
    /\ pc = "ClassifyingInScanner"
    /\ ret' = [ret EXCEPT !.scanner = FileScanner_shouldFlagAsHardcoded(Trim(arg.text))]
    /\ pc' = "Classified"
    /\ UNCHANGED <<tfile, fs, globResult, config, context, translations, srcFiles,
                   fileIdx, phase, code, i18nLastIndex, hcLastIndex, usedKeys,
                   allTranslationKeys, report, result, arg, QualityVars,
                   ComponentVars, StoreVars>>

ClassifyNext == GraderClassifies \/ ScannerClassifies

ClassifySpec == ClassifyInit /\ [][ClassifyNext]_vars

\* the exclusions as the specification lists them
StartsWithBraceOrDollar(t) == t # <<>> /\ t[1] \in {"{", "}", "$"}
OnlyDigits(t) == t # <<>> /\ \A i \in 1..Len(t) : t[i] \in Digit
ShortLowercase(t) == Len(t) >= 1 /\ Len(t) <= 3 /\ \A i \in 1..Len(t) : t[i] \in Lower
HexColour(t) == Len(t) >= 2 /\ t[1] = "#" /\ \A i \in 2..Len(t) : t[i] \in HexDigit
ConstantLike(t) == t # <<>> /\ \A i \in 1..Len(t) : t[i] \in Upper \cup {"_"}

-----------------------------------------------------------------------------
(* A whole run as a function of the order in which the discovered files    *)
(* are scanned, composed of the same steps as the actions above.           *)

RECURSIVE UsagePass(_, _, _)
\* the first while loop over one file, from the state st of the run
UsagePass(st, file, text) ==
    LET match == I18nExec(text, st.i18nLastIndex)
    IN  IF match.found
        THEN UsagePass([st EXCEPT !.i18nLastIndex = match.lastIndex,
                                  !.usedKeys = UsedAfter(@, match.group),
                                  !.report = AfterUsage(@, file, match.group, tfile.doc)],
                       file, text)
        ELSE [st EXCEPT !.i18nLastIndex = match.lastIndex]

RECURSIVE HardcodedPass(_, _, _)
\* the second while loop over one file
HardcodedPass(st, file, text) ==
    LET hcMatch == HardcodedExec(text, st.hcLastIndex)
    IN  IF hcMatch.found
        THEN HardcodedPass([st EXCEPT !.hcLastIndex = hcMatch.lastIndex,
                                      !.report = AfterHardcoded(@, file, hcMatch.group)],
                           file, text)
        ELSE [st EXCEPT !.hcLastIndex = hcMatch.lastIndex]

RECURSIVE ScanInOrder(_, _, _)
\* the for..of loop over the files from position i
ScanInOrder(st, files, i) ==
    IF st.thrown \/ i > Len(files) THEN st
    ELSE LET file == files[i]
         IN  IF fs[file].readable
             THEN ScanInOrder(HardcodedPass(UsagePass(st, file, fs[file].text),
                                            file, fs[file].text),
                              files, i + 1)
             ELSE IF context.logHasWarn THEN ScanInOrder(st, files, i + 1)
             ELSE [st EXCEPT !.thrown = TRUE]

\* what gradeLanguageImplementation returns or throws when glob.sync
\* hands over the files in the given order
OutcomeInOrder(files) ==
    IF ~Loaded
    THEN [kind |-> "return", success |-> FALSE, score |-> 0,
          report |-> [error |-> <<LoadErrorPrefix>> \o LoadErrorMessage(tfile, config)]]
    ELSE LET st == ScanInOrder([thrown |-> FALSE, i18nLastIndex |-> 0,
                                hcLastIndex |-> 0, usedKeys |-> {},
                                report |-> EmptyReport], files, 1)
         IN  IF st.thrown
             THEN [kind |-> "throw",
                   error |-> "TypeError: context.log.warn is not a function"]
             ELSE IF EntriesThrows(tfile.doc)
             THEN [kind |-> "throw",
                   error |-> "TypeError: Cannot convert undefined or null to object"]
             ELSE LET allKeys == extractAllKeys(tfile.doc, <<>>)
                      rep == [st.report EXCEPT
                                !.unusedKeys = @ \o UnusedKeys(allKeys, st.usedKeys)]
                      score == calculateScore(rep, config)
                  IN  [kind |-> "return", success |-> Success(score, config),
                       score |-> score,
                       report |-> [rep EXCEPT
                                     !.summary = Summary(rep, files, allKeys,
                                                         st.usedKeys, score)]]

\* the rearrangements of a sequence
Rearrangements(seq) ==
    {[i \in 1..Len(seq) |-> seq[p[i]]] : p \in Permutations(1..Len(seq))}

\* a sequence as a multiset: each entry with the number of its occurrences
BagOf(seq) ==
    [e \in Range(seq) |-> Cardinality({i \in 1..Len(seq) : seq[i] = e})]

Ended == pc \in {"Done", "Failed", "Thrown"}

\* two outcomes that differ at most in the order of the entries of the
\* missingKeys, hardcodedStrings and malformedKeys lists
SameOutcome(a, b) ==
    /\ a.kind = b.kind
    /\ a.kind = "throw" => a = b
    /\ a.kind = "return" =>
          /\ a.success = b.success
          /\ a.score = b.score
          /\ DOMAIN a.report = DOMAIN b.report
          /\ IF "error" \in DOMAIN a.report THEN a.report = b.report
             ELSE /\ a.report.summary = b.report.summary
                  /\ a.report.unusedKeys = b.report.unusedKeys
                  /\ BagOf(a.report.missingKeys) = BagOf(b.report.missingKeys)
                  /\ BagOf(a.report.hardcodedStrings) = BagOf(b.report.hardcodedStrings)
                  /\ BagOf(a.report.malformedKeys) = BagOf(b.report.malformedKeys)

\* C16: the outcome of a run does not depend on the order in which the
\* discovered files are scanned: whatever the rearrangement of the file
\* list, the score, the success flag, the summary, unusedKeys and the
\* multisets of missingKeys, hardcodedStrings and malformedKeys entries are
\* those of the run that took place.
C16_ScanOrderIsIrrelevant ==
    Ended =>
        /\ result = OutcomeInOrder(globResult)
        /\ \A files \in Rearrangements(globResult) :
              SameOutcome(OutcomeInOrder(files), result)

\* a completed run over two files whose findings come out in another order
\* when the files are scanned the other way round
C16_Witness ==
    /\ pc = "Done"
    /\ Len(globResult) >= 2
    /\ \E files \in Rearrangements(globResult) :
          /\ OutcomeInOrder(files).report.missingKeys # result.report.missingKeys
          /\ OutcomeInOrder(files).report.hardcodedStrings # result.report.hardcodedStrings

\* C17: in a completed run the summary agrees with the report: the four
\* counts are the lengths of the four lists, usedKeys is the number of
\* distinct keys referenced in the scanned files, totalKeys is the length
\* of extractAllKeys(document), and summary.score is the returned score.
C17_SummaryMatchesReport ==
    pc = "Done" =>
        LET rep == result.report
            summary == rep.summary
        IN  /\ summary.missingKeysCount = Len(rep.missingKeys)
            /\ summary.hardcodedStringsCount = Len(rep.hardcodedStrings)
            /\ summary.unusedKeysCount = Len(rep.unusedKeys)
            /\ summary.malformedKeysCount = Len(rep.malformedKeys)
            /\ summary.usedKeys = Cardinality(CapturedKeys)
            /\ summary.totalKeys = Len(extractAllKeys(tfile.doc, <<>>))
            /\ summary.score = result.score

\* a completed run with findings of all four kinds, in which a key is
\* referenced twice and a referenced key is not declared
C17_Witness ==
    /\ pc = "Done"
    /\ result.report.summary.missingKeysCount > 0
    /\ result.report.summary.hardcodedStringsCount > 0
    /\ result.report.summary.unusedKeysCount > 0
    /\ result.report.summary.malformedKeysCount > 0
    /\ result.report.summary.usedKeys
          < Len(UsagesIn(fs[globResult[1]].text, 0))
            + Len(UsagesIn(fs[globResult[Len(globResult)]].text, 0))
    /\ Len(globResult) = 2

\* one plus the number of newline characters strictly before offset index
LineAt(text, index) == 1 + Cardinality({i \in 1..index : text[i] = "\n"})

RECURSIVE UsageMatchesIn(_, _)
\* the matches of the call pattern in a text, with their offsets
UsageMatchesIn(text, from) ==
    LET m == I18nExec(text, from)
    IN  IF m.found THEN <<m>> \o UsageMatchesIn(text, m.lastIndex) ELSE <<>>

RECURSIVE HardcodedMatchesIn(_, _)
\* the matches of the element-text pattern in a text, with their offsets
HardcodedMatchesIn(text, from) ==
    LET m == HardcodedExec(text, from)
    IN  IF m.found THEN <<m>> \o HardcodedMatchesIn(text, m.lastIndex) ELSE <<>>

\* C18: every usage finding (an entry of missingKeys or malformedKeys) and
\* every hardcoded finding carries a line number, which is one plus the
\* number of newline characters before the start of its match in the text
\* of its file.
C18_FindingsCarryLineNumbers ==
    /\ \A e \in Range(report.missingKeys) \cup Range(report.malformedKeys) :
          /\ "line" \in DOMAIN e
          /\ \E m \in Range(UsageMatchesIn(fs[e.file].text, 0)) :
                m.group = e.key /\ e.line = LineAt(fs[e.file].text, m.index)
    /\ \A e \in Range(report.hardcodedStrings) :
          /\ "line" \in DOMAIN e
          /\ \E m \in Range(HardcodedMatchesIn(fs[e.file].text, 0)) :
                Trim(m.group) = e.text /\ e.line = LineAt(fs[e.file].text, m.index)

-----------------------------------------------------------------------------
(* gradeCodeQuality (codeQualityGrader.js).  The project is the            *)
(* environment: its qa-grader.config.json, the outcome of each of the three *)
(* commands, and the test-results.json that the test run may leave.  The    *)
(* context is the one of the handler and of the unit tests, whose log has   *)
(* info, warn and error.  A score is kept as the exact fraction             *)
(* totalScore / maxScore; minimumScore is in ten-thousandths as above.  The *)
(* errors, failures and coverage fields of the report are left out.         *)

LintCommand == "npm run lint -- --format json"
TestCommand == "npm test -- --coverage --json --outputFile=test-results.json"
TypeCheckCommand == "npx tsc --noEmit"

DefaultQualityMinimumScore == 7000

\* the codeQuality sections: none, { run: false }, { run: true } without
\* checks, and complete sections
QualityMinimumValues == {Undefined, Num(0), Num(8000)}
QualitySections ==
    {Undefined, [run |-> FALSE], [run |-> TRUE]}
    \cup {[run |-> r, minimumScore |-> m,
           checks |-> [runLint |-> cl, runTests |-> ct, runTypeCheck |-> cc],
           weights |-> [linting |-> wl, tests |-> wt, typeCheck |-> 20]] :
             r \in BOOLEAN, m \in QualityMinimumValues,
             cl \in BOOLEAN, ct \in BOOLEAN, cc \in BOOLEAN,
             wl \in {0, 30}, wt \in {0, 50}}

\* test-results.json: absent, not JSON, or a result with its success field
TestResultsFiles ==
    {[exists |-> FALSE, valid |-> FALSE, success |-> FALSE],
     [exists |-> TRUE, valid |-> FALSE, success |-> FALSE],
     [exists |-> TRUE, valid |-> TRUE, success |-> FALSE],
     [exists |-> TRUE, valid |-> TRUE, success |-> TRUE]}

Projects ==
    {[configFile |-> "missing", codeQuality |-> Undefined, lintOk |-> TRUE,
      testsOk |-> TRUE, typeCheckOk |-> TRUE, testResults |-> tr] :
        tr \in {t \in TestResultsFiles : ~t.exists}}
    \cup {[configFile |-> "present", codeQuality |-> c, lintOk |-> l,
           testsOk |-> t, typeCheckOk |-> k, testResults |-> tr] :
             c \in QualitySections, l \in BOOLEAN, t \in BOOLEAN, k \in BOOLEAN,
             tr \in TestResultsFiles}

\* the report as lines 591-595 create it
InitialQualityReport ==
    [linting |-> [run |-> FALSE, passed |-> FALSE],
     tests |-> [run |-> FALSE, passed |-> FALSE],
     typeCheck |-> [run |-> FALSE, passed |-> FALSE]]

\* a variant that skips only when there is no section
SkipsOnlyWithoutSection(cfg) == cfg = Undefined

\* !config || !config.run
Skips(cfg) == cfg = Undefined \/ ~cfg.run

\* the fraction a / b and the number 1
Fraction(a, b) == [num |-> a, den |-> b]
One == Fraction(1, 1)

\* maxScore > 0 ? (totalScore / maxScore) : 1
FinalScore(total, max) == IF max > 0 THEN Fraction(total, max) ELSE One

\* finalScore >= (config.minimumScore || 0.7), the denominator being positive
OverallPassed(finalScore, cfg) ==
    LET minimum == OrDefault(cfg.minimumScore, Num(DefaultQualityMinimumScore)).n
    IN  finalScore.num * maxPossibleScore >= minimum * finalScore.den

QualityInit ==
    /\ pc = "LoadingConfig"
    /\ project \in Projects
    /\ executed = <<>>
    /\ totalScore = 0
    /\ maxScore = 0
    /\ config = Undefined
    /\ context = [logHasWarn |-> TRUE]
    /\ report = InitialQualityReport
    /\ result = NoResult
    /\ tfile = [exists |-> FALSE, readable |-> FALSE, valid |-> FALSE, doc |-> Undefined]
    /\ globResult = <<>>
    /\ fs \in [{} -> SourceFiles]
    /\ translations = DocEmpty
    /\ srcFiles = <<>>
    /\ fileIdx = 0
    /\ phase = "none"
    /\ code = <<>>
    /\ i18nLastIndex = 0
    /\ hcLastIndex = 0
    /\ usedKeys = {}
    /\ allTranslationKeys = <<>>
    /\ arg = NoCall
    /\ ret = NoResult
    /\ ComponentIdle
    /\ StoreIdle

\* what gradeCodeQuality never touches
LanguageVars == <<tfile, fs, globResult, translations, srcFiles, fileIdx, phase,
                  code, i18nLastIndex, hcLastIndex, usedKeys, allTranslationKeys,
                  arg, ret, ComponentVars, StoreVars>>

\* lines 576-588: load qa-grader.config.json and take its codeQuality
\* section; return at once when there is none or run is false
LoadConfig ==
    /\ pc = "LoadingConfig"
    /\ IF project.configFile = "missing"
       THEN /\ pc' = "Thrown"
            /\ result' = [kind |-> "throw",
                          error |-> "Configuration file \"qa-grader.config.json\" not found in the project root."]
            /\ UNCHANGED config
       ELSE /\ config' = project.codeQuality
            /\ IF Skips(config')
               THEN /\ pc' = "Done"
                    /\ result' = [kind |-> "return", success |-> TRUE, score |-> One,
                                  report |-> [summary |-> "Skipped"]]
               ELSE /\ pc' = "Linting"
                    /\ UNCHANGED result
    /\ UNCHANGED <<LanguageVars, context, report, project, executed, totalScore, maxScore>>

\* config.checks.<flag> cannot be read: config.checks is undefined
ChecksThrow ==
    /\ pc' = "Thrown"
    /\ result' = [kind |-> "throw",
                  error |-> "TypeError: Cannot read properties of undefined"]
    /\ UNCHANGED <<report, executed, totalScore, maxScore>>

\* lines 601-616: ESLint
RunLint ==
    /\ pc = "Linting"
    /\ IF "checks" \notin DOMAIN config THEN ChecksThrow
       ELSE /\ IF config.checks.runLint
               THEN /\ maxScore' = maxScore + config.weights.linting
                    /\ executed' = Append(executed, LintCommand)
                    /\ report' = [report EXCEPT !.linting =
                                     [run |-> TRUE, passed |-> project.lintOk]]
                    /\ totalScore' = IF project.lintOk
                                     THEN totalScore + config.weights.linting
                                     ELSE totalScore
               ELSE UNCHANGED <<report, executed, totalScore, maxScore>>
            /\ pc' = "Testing"
            /\ UNCHANGED result
    /\ UNCHANGED <<LanguageVars, context, config, project>>

\* lines 619-639: Jest, then test-results.json when it exists
RunTests ==
    /\ pc = "Testing"
    /\ IF config.checks.runTests
       THEN /\ maxScore' = maxScore + config.weights.tests
            /\ executed' = Append(executed, TestCommand)
            /\ totalScore' = IF project.testsOk
                             THEN totalScore + config.weights.tests
                             ELSE totalScore
            /\ IF project.testResults.exists /\ ~project.testResults.valid
               THEN /\ pc' = "Thrown"
                    /\ result' = [kind |-> "throw",
                                  error |-> "SyntaxError: Unexpected token in JSON"]
                    /\ report' = [report EXCEPT !.tests =
                                     [run |-> TRUE, passed |-> project.testsOk]]
               ELSE /\ pc' = "TypeChecking"
                    /\ report' = [report EXCEPT !.tests =
                                     [run |-> TRUE,
                                      passed |->
                                          IF project.testResults.exists /\ ~project.testsOk
                                          THEN project.testResults.success
                                          ELSE project.testsOk]]
                    /\ UNCHANGED result
       ELSE /\ pc' = "TypeChecking"
            /\ UNCHANGED <<report, executed, totalScore, maxScore, result>>
    /\ UNCHANGED <<LanguageVars, context, config, project>>

\* lines 642-657: the TypeScript compiler
RunTypeCheck ==
    /\ pc = "TypeChecking"
    /\ IF config.checks.runTypeCheck
       THEN /\ maxScore' = maxScore + config.weights.typeCheck
            /\ executed' = Append(executed, TypeCheckCommand)
            /\ report' = [report EXCEPT !.typeCheck =
                             [run |-> TRUE, passed |-> project.typeCheckOk]]
            /\ totalScore' = IF project.typeCheckOk
                             THEN totalScore + config.weights.typeCheck
                             ELSE totalScore
       ELSE UNCHANGED <<report, executed, totalScore, maxScore>>
    /\ pc' = "Summarising"
    /\ UNCHANGED <<LanguageVars, context, config, project, result>>

\* lines 660-672: the final score, the summary and the returned object
Summarise ==
    /\ pc = "Summarising"
    /\ LET finalScore == FinalScore(totalScore, maxScore)
           summary == [overallPassed |-> OverallPassed(finalScore, config),
                       score |-> finalScore]
       IN  /\ report' = [linting |-> report.linting, tests |-> report.tests,
                         typeCheck |-> report.typeCheck, summary |-> summary]
           /\ result' = [kind |-> "return", success |-> summary.overallPassed,
                         score |-> finalScore, report |-> report']
    /\ pc' = "Done"
    /\ UNCHANGED <<LanguageVars, context, config, project, executed, totalScore, maxScore>>

QualityNext == LoadConfig \/ RunLint \/ RunTests \/ RunTypeCheck \/ Summarise

QualitySpec == QualityInit /\ [][QualityNext]_vars

\* the weights of the enabled checks, and of those whose command succeeded
EnabledWeight(cfg) ==
    (IF cfg.checks.runLint THEN cfg.weights.linting ELSE 0)
    + (IF cfg.checks.runTests THEN cfg.weights.tests ELSE 0)
    + (IF cfg.checks.runTypeCheck THEN cfg.weights.typeCheck ELSE 0)
PassedWeight(cfg, proj) ==
    (IF cfg.checks.runLint /\ proj.lintOk THEN cfg.weights.linting ELSE 0)
    + (IF cfg.checks.runTests /\ proj.testsOk THEN cfg.weights.tests ELSE 0)
    + (IF cfg.checks.runTypeCheck /\ proj.typeCheckOk THEN cfg.weights.typeCheck ELSE 0)
NoCheckEnabled(cfg) ==
    ~cfg.checks.runLint /\ ~cfg.checks.runTests /\ ~cfg.checks.runTypeCheck

\* a run of gradeCodeQuality that went through the checks and returned
Graded == pc = "Done" /\ ~Skips(config)

\* C19: the score of gradeCodeQuality is the sum of the weights of the
\* enabled checks that passed divided by the sum of the weights of all
\* enabled checks, and 1 when no check is enabled; success is true exactly
\* when the score is at least the configured minimumScore, 0.7 being the
\* threshold only when none is configured.
C19_ScoreIsPassedOverEnabledWeight ==
    Graded =>
        /\ NoCheckEnabled(config) => result.score.num = result.score.den
        /\ EnabledWeight(config) > 0 =>
              result.score.num * EnabledWeight(config)
                  = PassedWeight(config, project) * result.score.den
        /\ result.success <=>
              result.score.num * maxPossibleScore
                  >= ConfiguredOr(config.minimumScore, DefaultQualityMinimumScore)
                         * result.score.den

\* the check that a command belongs to is enabled in config.checks
CommandIsEnabled(command) ==
    /\ config # Undefined
    /\ "checks" \in DOMAIN config
    /\ command = LintCommand => config.checks.runLint
    /\ command = TestCommand => config.checks.runTests
    /\ command = TypeCheckCommand => config.checks.runTypeCheck

\* C20: gradeCodeQuality hands no command of a disabled check to exec, and
\* when the configuration file has no codeQuality section or the section
\* has run = false, it executes no command at all and returns success =
\* true, score = 1 and report.summary = 'Skipped'.
C20_DisabledChecksAreNotExecuted ==
    /\ \A i \in 1..Len(executed) : CommandIsEnabled(executed[i])
    /\ (/\ project.configFile = "present"
        /\ project.codeQuality = Undefined \/ ~project.codeQuality.run) =>
          /\ executed = <<>>
          /\ pc \in {"LoadingConfig", "Done"}
          /\ pc = "Done" =>
                result = [kind |-> "return", success |-> TRUE, score |-> One,
                          report |-> [summary |-> "Skipped"]]

\* a run that returned after executing the commands of the lint and type
\* checks only, the tests check being disabled
C20_Witness ==
    /\ pc = "Done"
    /\ config # Undefined
    /\ config.run
    /\ ~config.checks.runTests
    /\ executed = <<LintCommand, TypeCheckCommand>>
    /\ ~project.lintOk

-----------------------------------------------------------------------------
(* resolveKey segment by segment                                           *)

\* the node that resolveKey holds after the first n segments of a key
NodeAfter(doc, key, n) == ResolveParts(doc, SubSeq(Split(key), 1, n))

Scalar(v) == v.t \in {"string", "number", "boolean", "null"}

\* C23: when resolveKey holds a scalar (string, number, boolean or null) or
\* undefined while segments remain, it returns undefined, whatever the
\* remaining segments are.
C23_ScalarWithSegmentsLeftIsUndefined ==
    pc = "Resolved" =>
        \A n \in 0..(Len(Split(arg.key)) - 1) :
            LET node == NodeAfter(arg.doc, arg.key, n)
            IN  (Scalar(node) \/ node = Undefined) => ret.value = Undefined

\* C24: when the node is a sequence, resolveKey goes on only if the segment
\* is the canonical base-10 rendering of the index of an existing element;
\* for every other segment it returns undefined.
C24_OnlyCanonicalIndicesSelect ==
    pc = "Resolved" =>
        \A n \in 0..(Len(Split(arg.key)) - 1) :
            LET node == NodeAfter(arg.doc, arg.key, n)
                part == Split(arg.key)[n + 1]
            IN  (/\ node.t = "array"
                 /\ ~(IsIndexString(part) /\ DigitsToInt(part) < Len(node.a)))
                    => ret.value = Undefined

-----------------------------------------------------------------------------
(* The accumulators and the pattern passes of a run                        *)

\* b is a with entries appended
Extends(b, a) == Len(a) <= Len(b) /\ SubSeq(b, 1, Len(a)) = a

\* C25: in every step of a run the used-key set and the four finding lists
\* only grow: the set is a superset of its previous value and each list is
\* its previous value with entries appended, also in the step in which a
\* file fails.
C25_AccumulatorsOnlyGrow ==
    [][/\ usedKeys \subseteq usedKeys'
       /\ Extends(report'.missingKeys, report.missingKeys)
       /\ Extends(report'.hardcodedStrings, report.hardcodedStrings)
       /\ Extends(report'.malformedKeys, report.malformedKeys)
       /\ Extends(report'.unusedKeys, report.unusedKeys)]_vars

\* a completed run in which a file could not be read, a later file was
\* scanned, and all four lists and the set have entries
C25_Witness ==
    /\ pc = "Done"
    /\ Len(globResult) = 2
    /\ ~fs[globResult[1]].readable
    /\ usedKeys # {}
    /\ report.missingKeys # <<>>
    /\ report.hardcodedStrings # <<>>
    /\ report.malformedKeys # <<>>
    /\ report.unusedKeys # <<>>

\* the offsets at which a pattern pass over the code in hand starts or goes on
PassesStartAtZero ==
    /\ phase \in {"none", "glob", "read"} => i18nLastIndex = 0 /\ hcLastIndex = 0
    /\ phase = "i18n" => hcLastIndex = 0 /\ i18nLastIndex <= Len(code)
    /\ phase = "hardcoded" => i18nLastIndex = 0 /\ hcLastIndex <= Len(code)

\* a step of the usage pass that reports a match
UsageMatchStep == phase = "i18n" /\ phase' = "i18n"
\* a step of the hardcoded-text pass that reports a match
HardcodedMatchStep == phase = "hardcoded" /\ phase' = "hardcoded"

\* C26: each of the two pattern passes starts at offset 0 for every file,
\* also for a file scanned after another one with the same matcher; each
\* reported match starts at or after the end of the previous match and ends
\* later than it starts, so that no match is reported twice; and each pass
\* terminates: every step that stays in a pass moves its offset strictly
\* forward, and the offset never exceeds the length of the text.
C26_PassesScanOnceAndTerminate ==
    /\ []PassesStartAtZero
    /\ [][/\ (phase = "read" /\ phase' = "i18n") =>
                i18nLastIndex' = 0 /\ hcLastIndex' = 0
          /\ UsageMatchStep =>
                LET match == I18nExec(code, i18nLastIndex)
                IN  /\ match.found
                    /\ match.index >= i18nLastIndex
                    /\ i18nLastIndex' > match.index
                    /\ i18nLastIndex' <= Len(code)
          /\ HardcodedMatchStep =>
                LET hcMatch == HardcodedExec(code, hcLastIndex)
                IN  /\ hcMatch.found
                    /\ hcMatch.index >= hcLastIndex
                    /\ hcLastIndex' > hcMatch.index
                    /\ hcLastIndex' <= Len(code)]_vars

\* the second file of a run in its hardcoded-text pass, past a first match,
\* after the first file gave findings in both passes
C26_Witness ==
    /\ pc = "Scanning"
    /\ fileIdx = 2
    /\ phase = "hardcoded"
    /\ hcLastIndex > 0
    /\ \E i \in 1..Len(report.hardcodedStrings) :
          report.hardcodedStrings[i].file = srcFiles[1]
    /\ \E i \in 1..Len(report.missingKeys) :
          report.missingKeys[i].file = srcFiles[1]
    /\ \E i \in 1..Len(report.missingKeys) :
          report.missingKeys[i].file = srcFiles[2]

-----------------------------------------------------------------------------
(* The checks of gradeCodeQuality and what the report says about them      *)

\* the weights of the enabled checks that the report gives as passed
ReportedPassedWeight(cfg, rep) ==
    (IF cfg.checks.runLint /\ rep.linting.passed THEN cfg.weights.linting ELSE 0)
    + (IF cfg.checks.runTests /\ rep.tests.passed THEN cfg.weights.tests ELSE 0)
    + (IF cfg.checks.runTypeCheck /\ rep.typeCheck.passed
       THEN cfg.weights.typeCheck ELSE 0)

\* C28: in the result of gradeCodeQuality an enabled check is reported as
\* passed exactly when its weight was counted into the score: the weights of
\* the enabled checks with passed = true add up to the counted total, and
\* the tests check is not reported as passed while the test command failed
\* and its weight was withheld.
C28_PassedExactlyWhenWeightCounted ==
    Graded =>
        /\ ReportedPassedWeight(config, result.report) = totalScore
        /\ (config.checks.runTests /\ result.report.tests.passed) => project.testsOk

\* the commands of the enabled checks in the order lint, tests, type check
EnabledCommands(cfg) ==
    (IF cfg.checks.runLint THEN <<LintCommand>> ELSE <<>>)
    \o (IF cfg.checks.runTests THEN <<TestCommand>> ELSE <<>>)
    \o (IF cfg.checks.runTypeCheck THEN <<TypeCheckCommand>> ELSE <<>>)

\* a run of gradeCodeQuality that went into the checks and came to its end
ChecksEnded ==
    /\ pc \in {"Done", "Thrown"}
    /\ config # Undefined
    /\ config.run
    /\ "checks" \in DOMAIN config

\* C29: the enabled checks run in the order lint, tests, type check, and a
\* failing check does not keep a later enabled check from running: when the
\* run has ended, the executed commands are those of the enabled checks,
\* each once and in that order, and every enabled check has run = true in
\* the report.
C29_EveryEnabledCheckRunsOnceInOrder ==
    ChecksEnded =>
        /\ executed = EnabledCommands(config)
        /\ config.checks.runLint => report.linting.run
        /\ config.checks.runTests => report.tests.run
        /\ config.checks.runTypeCheck => report.typeCheck.run

-----------------------------------------------------------------------------
(* useStudentStore (api/powerAutomate.js)                                  *)

MaxCalls == 3

StudentIds == {"s1", "s2"}

\* res.data of GET /api/students/:id
StudentData(id) == [t |-> "object", id |-> id]

\* err.message of a failed request: a text, the empty text, or none
NotFoundText == <<"4", "0", "4">>
ErrorMessages == {Str(NotFoundText), Str(<<>>), Undefined}
UnknownErrorText ==
    <<"U", "n", "k", "n", "o", "w", "n", " ", "e", "r", "r", "o", "r">>

\* a call of fetchStudent that awaits its response
PendingCall(id) ==
    [fn |-> "fetchStudent", id |-> id, status |-> "pending",
     outcome |-> "none", message |-> Undefined]
ResetCall ==
    [fn |-> "reset", id |-> "", status |-> "completed",
     outcome |-> "none", message |-> Undefined]

StoreInit ==
    /\ StoreIdle
    /\ pc = "Mounted"
    /\ tfile = [exists |-> FALSE, readable |-> FALSE, valid |-> FALSE, doc |-> Undefined]
    /\ globResult = <<>>
    /\ fs \in [{} -> SourceFiles]
    /\ config = Undefined
    /\ context = [logHasWarn |-> TRUE]
    /\ translations = DocEmpty
    /\ srcFiles = <<>>
    /\ fileIdx = 0
    /\ phase = "none"
    /\ code = <<>>
    /\ i18nLastIndex = 0
    /\ hcLastIndex = 0
    /\ usedKeys = {}
    /\ allTranslationKeys = <<>>
    /\ report = EmptyReport
    /\ result = NoResult
    /\ arg = NoCall
    /\ ret = NoResult
    /\ QualityIdle
    /\ ComponentIdle

\* what the store never touches
OutsideStore == <<pc, tfile, fs, globResult, config, context, translations,
                  srcFiles, fileIdx, phase, code, i18nLastIndex, hcLastIndex,
                  usedKeys, allTranslationKeys, report, result, arg, ret,
                  QualityVars, ComponentVars>>

\* lines 20-23: fetchStudent(id) up to its await: set({loading: true,
\* error: null}) and the request is sent
FetchStudent(id) ==
    /\ Len(calls) < MaxCalls
    /\ store' = [store EXCEPT !.loading = TRUE, !.error = Null]
    /\ calls' = Append(calls, PendingCall(id))
    /\ UNCHANGED OutsideStore

\* line 24: the request of call i is answered; the continuation runs
\* set({student: res.data, loading: false})
RequestResolves(i) ==
    /\ calls[i].status = "pending"
    /\ store' = [store EXCEPT !.student = StudentData(calls[i].id),
                              !.loading = FALSE]
    /\ calls' = [calls EXCEPT ![i].status = "completed",
                              ![i].outcome = "resolved"]
    /\ UNCHANGED OutsideStore

\* lines 25-27: the request of call i fails; the catch block runs
\* set({error: err.message || 'Unknown error', loading: false})
RequestRejects(i, message) ==
    /\ calls[i].status = "pending"
    /\ store' = [store EXCEPT !.error = OrDefault(message, Str(UnknownErrorText)),
                              !.loading = FALSE]
    /\ calls' = [calls EXCEPT ![i].status = "completed",
                              ![i].outcome = "rejected",
                              ![i].message = message]
    /\ UNCHANGED OutsideStore

\* line 31: reset()
Reset ==
    /\ Len(calls) < MaxCalls
    /\ store' = [student |-> Null, loading |-> FALSE, error |-> Null]
    /\ calls' = Append(calls, ResetCall)
    /\ UNCHANGED OutsideStore

StoreNext ==
    \/ \E id \in StudentIds : FetchStudent(id)
    \/ \E i \in 1..Len(calls) : RequestResolves(i)
    \/ \E i \in 1..Len(calls), message \in ErrorMessages : RequestRejects(i, message)
    \/ Reset

StoreSpec == StoreInit /\ [][StoreNext]_vars

\* only fetchStudent was called, at least once, and every call has completed
AllFetchesCompleted ==
    /\ calls # <<>>
    /\ \A i \in 1..Len(calls) :
          calls[i].fn = "fetchStudent" /\ calls[i].status = "completed"

LatestCall == calls[Len(calls)]

\* C30: under any interleaving of overlapping fetchStudent calls, once all
\* issued calls have completed, loading is false and the store shows the
\* outcome of the most recently issued call: its student when it resolved,
\* its error when it was rejected.
C30_StoreReflectsLatestCall ==
    AllFetchesCompleted =>
        /\ ~store.loading
        /\ LatestCall.outcome = "resolved" =>
              store.student = StudentData(LatestCall.id)
        /\ LatestCall.outcome = "rejected" =>
              store.error = OrDefault(LatestCall.message, Str(UnknownErrorText))

-----------------------------------------------------------------------------
(* The component grader (functions/src/graders/componentGrader.js): the    *)
(* three patterns of analyzeComponent                                      *)

\* the literal lit stands in text at offset p
LiteralAt(text, p, lit) ==
    /\ p >= 0
    /\ p + Len(lit) <= Len(text)
    /\ SubSeq(text, p + 1, p + Len(lit)) = lit

\* \s* from offset p: the offset of the first character that is not white
\* space, or the length of the text
SkipSpace(text, p) ==
    Least({j \in p..Len(text) : j = Len(text) \/ At(text, j) \notin Whitespace})

\* text.includes(lit), as a pattern without flags tests it
Includes(text, lit) == \E p \in 0..Len(text) : LiteralAt(text, p, lit)

StyleWord == <<"s", "t", "y", "l", "e">>

\* /style\s*=\s*\{\{/ at offset p: the offset after the match, or -1
InlineStyleEnd(text, p) ==
    IF ~LiteralAt(text, p, StyleWord) THEN 0 - 1
    ELSE LET a == SkipSpace(text, p + 5)
         IN  IF ~LiteralAt(text, a, <<"=">>) THEN 0 - 1
             ELSE LET b == SkipSpace(text, a + 1)
                  IN  IF LiteralAt(text, b, <<"{", "{">>) THEN b + 2 ELSE 0 - 1

\* inlineStyleRegex.test(line) with the given lastIndex: the pattern has
\* the g flag, so the search starts at lastIndex, a match leaves lastIndex
\* after itself and a failure resets it to 0
InlineStyleTest(line, lastIndex) ==
    LET ps == {p \in lastIndex..(Len(line) - 1) : InlineStyleEnd(line, p) >= 0}
    IN  IF ps = {} THEN [found |-> FALSE, lastIndex |-> 0]
        ELSE [found |-> TRUE, lastIndex |-> InlineStyleEnd(line, Least(ps))]

MapCall == <<".", "m", "a", "p", "(">>
TagNameChars == Letter \cup Digit \cup {"_", "."}

\* \s*\(?\s*<([A-Za-z0-9_.]+)[^>]*?(?<!\skey=|\skey={)[^>]*?> from offset j:
\* the offset after the match, or -1.  Right after the tag name the look-
\* behind holds (the character before it is a name character, neither '='
\* nor '{'), so the tag ends at the first '>' after the name.
ArrowTailEnd(text, j) ==
    LET a == SkipSpace(text, j)
        b == SkipSpace(text, IF LiteralAt(text, a, <<"(">>) THEN a + 1 ELSE a)
    IN  IF ~LiteralAt(text, b, <<"<">>) THEN 0 - 1
        ELSE LET c == Least({k \in (b + 1)..Len(text) :
                                k = Len(text) \/ At(text, k) \notin TagNameChars})
                 es == {e \in c..(Len(text) - 1) : At(text, e) = ">"}
             IN  IF c = b + 1 \/ es = {} THEN 0 - 1 ELSE Least(es) + 1

\* /\.map\([\s\S]*?=>.../ at offset p: the lazy group takes the first '=>'
\* after which the rest matches
MapWithoutKeyEnd(text, p) ==
    IF ~LiteralAt(text, p, MapCall) THEN 0 - 1
    ELSE LET qs == {q \in (p + 5)..(Len(text) - 2) :
                       LiteralAt(text, q, <<"=", ">">>) /\ ArrowTailEnd(text, q + 2) >= 0}
         IN  IF qs = {} THEN 0 - 1 ELSE ArrowTailEnd(text, Least(qs) + 2)

\* mapWithoutKeyRegex.test(line) with the given lastIndex
MapWithoutKeyTest(line, lastIndex) ==
    LET ps == {p \in lastIndex..(Len(line) - 1) : MapWithoutKeyEnd(line, p) >= 0}
    IN  IF ps = {} THEN [found |-> FALSE, lastIndex |-> 0]
        ELSE [found |-> TRUE, lastIndex |-> MapWithoutKeyEnd(line, Least(ps))]

PressableName == <<"P", "r", "e", "s", "s", "a", "b", "l", "e">>
TouchableOpacityName ==
    <<"T", "o", "u", "c", "h", "a", "b", "l", "e", "O", "p", "a", "c", "i", "t", "y">>
ButtonName == <<"B", "u", "t", "t", "o", "n">>
TextInputName == <<"T", "e", "x", "t", "I", "n", "p", "u", "t">>
SwitchName == <<"S", "w", "i", "t", "c", "h">>
InteractiveNames ==
    <<PressableName, TouchableOpacityName, ButtonName, TextInputName, SwitchName>>

\* /<(Pressable|TouchableOpacity|Button|TextInput|Switch)([^>]*)>/ at
\* offset p: the alternatives in their order, then up to the first '>'
InteractiveMatchAt(text, p) ==
    LET ns == {n \in 1..Len(InteractiveNames) :
                  LiteralAt(text, p, <<"<">> \o InteractiveNames[n])}
    IN  IF ns = {} THEN [found |-> FALSE]
        ELSE LET name == InteractiveNames[Least(ns)]
                 es == {e \in (p + 1 + Len(name))..(Len(text) - 1) : At(text, e) = ">"}
             IN  IF es = {} THEN [found |-> FALSE]
                 ELSE [found |-> TRUE, componentName |-> name,
                       fullTag |-> SubSeq(text, p + 1, Least(es) + 1),
                       lastIndex |-> Least(es) + 1]

RECURSIVE InteractiveMatches(_, _)
\* the matches that the while loop over interactiveComponentRegex.exec(line)
\* sees, from the given lastIndex until exec returns null
InteractiveMatches(line, lastIndex) ==
    LET ps == {p \in lastIndex..(Len(line) - 1) : InteractiveMatchAt(line, p).found}
    IN  IF ps = {} THEN <<>>
        ELSE LET m == InteractiveMatchAt(line, Least(ps))
             IN  <<m>> \o InteractiveMatches(line, m.lastIndex)

AccessibilityLabelAttr ==
    <<"a", "c", "c", "e", "s", "s", "i", "b", "i", "l", "i", "t", "y",
      "L", "a", "b", "e", "l", "=">>
TestIDAttr == <<"t", "e", "s", "t", "I", "D", "=">>

MissingKeyIssue == "Missing key prop in mapped component"
InlineStyleIssue == "Inline styles detected - consider using StyleSheet"
MissingLabelIssue == "Missing accessibilityLabel"
MissingTestIDIssue == "Missing testID for interactive element"

\* rules.<name> as a condition: an absent rule reads as undefined
RuleOnUnlessFalse(rules, name) == rules[name] # Bool(FALSE)
RuleOn(rules, name) == Truthy(rules[name])

RECURSIVE SplitLines(_)
\* code.split('\n')
SplitLines(text) ==
    IF \A i \in 1..Len(text) : text[i] # "\n" THEN <<text>>
    ELSE LET i == Least({k \in 1..Len(text) : text[k] = "\n"})
         IN  <<SubSeq(text, 1, i - 1)>> \o SplitLines(SubSeq(text, i + 1, Len(text)))

\* the entries that the loop at lines 107-120 pushes for one line
AccessibilityIssues(file, line, lineNumber, rules) ==
    LET ms == SelectSeq(InteractiveMatches(line, 0),
                        LAMBDA m : ~Includes(m.fullTag, AccessibilityLabelAttr))
    IN  IF ~RuleOn(rules, "checkAccessibilityLabel") THEN <<>>
        ELSE [i \in 1..Len(ms) |->
                 [file |-> file, issue |-> MissingLabelIssue,
                  component |-> ms[i].componentName, line |-> lineNumber]]
TestIDIssues(file, line, lineNumber, rules) ==
    LET ms == SelectSeq(InteractiveMatches(line, 0),
                        LAMBDA m : ~Includes(m.fullTag, TestIDAttr))
    IN  IF ~RuleOn(rules, "checkTestID") THEN <<>>
        ELSE [i \in 1..Len(ms) |->
                 [file |-> file, issue |-> MissingTestIDIssue,
                  component |-> ms[i].componentName, line |-> lineNumber]]

-----------------------------------------------------------------------------
(* IEEE-754 double arithmetic of the score.  A non-negative number below   *)
(* 2^15 is held as the five digits in base 2^15, least significant first,  *)
(* of its multiple of 2^-60; every double between 0.01 and 2 is such a     *)
(* multiple.                                                                *)

LimbBits == 15
Base == 2 ^ LimbBits
LimbCount == 5
SignificandBits == 53

LimbsZero == <<0, 0, 0, 0, 0>>

RECURSIVE LimbsAddFrom(_, _, _)
LimbsAddFrom(x, y, c) ==
    IF x = <<>> THEN <<>>
    ELSE <<(x[1] + y[1] + c) % Base>>
         \o LimbsAddFrom(Tail(x), Tail(y), (x[1] + y[1] + c) \div Base)
LimbsAdd(x, y) == LimbsAddFrom(x, y, 0)

RECURSIVE LimbsSubFrom(_, _, _)
\* x - y - c for x >= y + c
LimbsSubFrom(x, y, c) ==
    IF x = <<>> THEN <<>>
    ELSE <<(x[1] - y[1] - c) % Base>>
         \o LimbsSubFrom(Tail(x), Tail(y), IF x[1] - y[1] - c < 0 THEN 1 ELSE 0)
LimbsSub(x, y) == LimbsSubFrom(x, y, 0)

RECURSIVE LimbsTimesFrom(_, _, _)
\* the exact product of a small integer and a number
LimbsTimesFrom(n, x, c) ==
    IF x = <<>> THEN <<>>
    ELSE <<(n * x[1] + c) % Base>>
         \o LimbsTimesFrom(n, Tail(x), (n * x[1] + c) \div Base)
LimbsTimes(n, x) == LimbsTimesFrom(n, x, 0)

LimbsLess(x, y) ==
    \E i \in 1..LimbCount :
        /\ x[i] < y[i]
        /\ \A j \in (i + 1)..LimbCount : x[j] = y[j]

\* 2^e
LimbsPowerOfTwo(e) ==
    [i \in 1..LimbCount |->
        IF i = (e \div LimbBits) + 1 THEN 2 ^ (e % LimbBits) ELSE 0]

\* the number of binary digits of x
BitLength(x) ==
    IF x = LimbsZero THEN 0
    ELSE LET top == CHOOSE i \in 1..LimbCount :
                       x[i] # 0 /\ \A j \in (i + 1)..LimbCount : x[j] = 0
         IN  LimbBits * (top - 1)
             + (CHOOSE k \in 1..LimbBits : 2 ^ (k - 1) <= x[top] /\ x[top] < 2 ^ k)

\* x modulo 2^d
LowBits(x, d) ==
    [i \in 1..LimbCount |->
        IF LimbBits * i <= d THEN x[i]
        ELSE IF LimbBits * (i - 1) < d THEN x[i] % (2 ^ (d - LimbBits * (i - 1)))
        ELSE 0]

\* the binary digit of weight 2^d
BitAt(x, d) == (x[(d \div LimbBits) + 1] \div (2 ^ (d % LimbBits))) % 2

\* rounding to 53 significant binary digits, to nearest and ties to even;
\* sticky says that the exact value lies above x
RoundToDouble(x, sticky) ==
    IF BitLength(x) <= SignificandBits THEN x
    ELSE LET d == BitLength(x) - SignificandBits
             low == LowBits(x, d)
             floor == LimbsSub(x, low)
             half == LimbsPowerOfTwo(d - 1)
             up == \/ LimbsLess(half, low)
                   \/ low = half /\ (sticky \/ BitAt(floor, d) = 1)
         IN  IF up THEN LimbsAdd(floor, LimbsPowerOfTwo(d)) ELSE floor

RECURSIVE DivideFrom(_, _, _)
\* long division by a small d from the most significant digit: the
\* remainder, then the digits of the quotient
DivideFrom(x, d, r) ==
    IF x = <<>> THEN <<r>>
    ELSE LET t == r * Base + x[Len(x)]
         IN  Append(DivideFrom(SubSeq(x, 1, Len(x) - 1), d, t % d), t \div d)

\* the double that a decimal literal of h hundredths denotes (0.05, 0.8, 1):
\* h * 2^60 / 100, rounded
DoubleOfHundredths(h) ==
    LET qr == DivideFrom(<<0, 0, 0, 0, h>>, 100, 0)
    IN  RoundToDouble(Tail(qr), Head(qr) # 0)

DoubleOne == DoubleOfHundredths(100)
PenaltyPerIssue == DoubleOfHundredths(5)

\* n * x for an integer n and a double x
DoubleTimes(n, x) == RoundToDouble(LimbsTimes(n, x), FALSE)

\* line 72: Math.max(0, 1 - (issuesFound * 0.05))
ComponentScore(issuesFound) ==
    LET penalty == DoubleTimes(issuesFound, PenaltyPerIssue)
    IN  IF LimbsLess(DoubleOne, penalty) THEN LimbsZero
        ELSE RoundToDouble(LimbsSub(DoubleOne, penalty), FALSE)

\* score >= config.minimumScore: false when minimumScore is not a number
ScoreAtLeast(score, minimumScore) ==
    /\ minimumScore.t = "number"
    /\ ~LimbsLess(score, DoubleOfHundredths(minimumScore.n))

-----------------------------------------------------------------------------
(* gradeComponents                                                         *)

MaxLines == 2
MaxTags == 11

StyleLine == <<"s", "t", "y", "l", "e", "=", "{", "{">>
IndentedStyleLine == <<" ", " ", "s", "t", "y", "l", "e", " ", "=", " ", "{", "{">>
ButtonLine == <<"<", "B", "u", "t", "t", "o", "n", ">">>
SwitchLine ==
    <<"<", "S", "w", "i", "t", "c", "h", " ", "t", "e", "s", "t", "I", "D", "=", "1", ">">>
MapLine == <<".", "m", "a", "p", "(", "i", "=", ">", "<", "T", ">">>
IndentedMapLine ==
    <<" ", " ", ".", "m", "a", "p", "(", "i", "=", ">", "(", "<", "T", ">">>
EmptyLine == <<>>
ComponentLines ==
    {StyleLine, IndentedStyleLine, ButtonLine, SwitchLine, MapLine,
     IndentedMapLine, EmptyLine}

RECURSIVE JoinLines(_)
\* the text of a file with the given lines
JoinLines(ls) ==
    IF ls = <<>> THEN <<>>
    ELSE IF Len(ls) = 1 THEN ls[1] ELSE ls[1] \o <<"\n">> \o JoinLines(Tail(ls))

ComponentTexts ==
    {JoinLines(ls) : ls \in UNION {[1..n -> ComponentLines] : n \in 1..MaxLines}}

RuleNames ==
    {"checkAccessibilityLabel", "checkTestID", "checkInlineStyles", "checkMissingKeys"}
\* a rule of the configuration: absent, false or true
RuleValues == {Undefined, Bool(FALSE), Bool(TRUE)}
RuleSets == [RuleNames -> RuleValues]
AllRulesOn == [name \in RuleNames |-> Bool(TRUE)]

\* the componentGrader section of qa-grader.config.json, minimumScore in
\* hundredths
ComponentSections ==
    {Undefined,
     [run |-> FALSE, minimumScore |-> Num(80), rules |-> AllRulesOn]}
    \cup {[run |-> TRUE, minimumScore |-> Num(80), rules |-> r] :
             r \in RuleSets \cup {Undefined}}

\* sections with every rule on and a minimumScore that is absent or given
ScoringSections ==
    {[run |-> TRUE, minimumScore |-> m, rules |-> AllRulesOn] :
        m \in {Undefined, Num(0), Num(65), Num(80), Num(100)}}

ComponentProjects(sections) ==
    {[configFile |-> "missing", componentGrader |-> Undefined]}
    \cup {[configFile |-> "present", componentGrader |-> c] : c \in sections}

\* files of interactive elements only: b lines with a Button without
\* attributes, then at most one line with a Switch that has a testID
TaggedTexts ==
    {JoinLines([i \in 1..(b + s) |-> IF i <= b THEN ButtonLine ELSE SwitchLine]) :
        b \in 0..MaxTags, s \in 0..1} \ {JoinLines(<<EmptyLine>>)}

ComponentFileNames == <<"A.js", "B.js">>
Unreadable == [readable |-> FALSE, text |-> <<>>]
\* the files of a project with two component files
PairedSources ==
    {Unreadable, [readable |-> TRUE, text |-> JoinLines(<<IndentedStyleLine, ButtonLine>>)],
     [readable |-> TRUE, text |-> StyleLine]}

\* lines 53-57
EmptyComponentReport == [accessibility |-> <<>>, testIds |-> <<>>, bestPractices |-> <<>>]

\* what gradeComponents never touches
OutsideComponents ==
    <<tfile, translations, srcFiles, phase, code, i18nLastIndex, hcLastIndex,
      usedKeys, allTranslationKeys, arg, ret, executed, totalScore, maxScore,
      StoreVars, context, fs, globResult, project>>

ComponentLocals ==
    /\ config = Undefined
    /\ context = [logHasWarn |-> TRUE]
    /\ tfile = [exists |-> FALSE, readable |-> FALSE, valid |-> FALSE, doc |-> Undefined]
    /\ translations = DocEmpty
    /\ srcFiles = <<>>
    /\ phase = "none"
    /\ code = <<>>
    /\ i18nLastIndex = 0
    /\ hcLastIndex = 0
    /\ usedKeys = {}
    /\ allTranslationKeys = <<>>
    /\ result = NoResult
    /\ arg = NoCall
    /\ ret = NoResult
    /\ executed = <<>>
    /\ totalScore = 0
    /\ maxScore = 0
    /\ StoreIdle

ComponentInit ==
    /\ pc = "LoadingConfig"
    /\ \/ /\ project \in ComponentProjects(ComponentSections)
          /\ \/ globResult = <<>> /\ fs \in [{} -> PairedSources]
             \/ /\ globResult = <<"A.js">>
                /\ fs \in [{"A.js"} ->
                              {[readable |-> TRUE, text |-> t] : t \in ComponentTexts}]
       \/ /\ project \in ComponentProjects(ScoringSections)
          /\ \/ /\ globResult = ComponentFileNames
                /\ fs \in [{"A.js", "B.js"} -> PairedSources]
             \/ /\ globResult = <<"A.js">>
                /\ fs \in [{"A.js"} ->
                              {[readable |-> TRUE, text |-> t] : t \in TaggedTexts}]
    /\ report = EmptyComponentReport
    /\ fileIdx = 0
    /\ ComponentIdle
    /\ ComponentLocals

\* lines 32-44: load qa-grader.config.json and take its componentGrader
\* section; return at once when there is none or run is false
ComponentLoadConfig ==
    /\ pc = "LoadingConfig"
    /\ IF project.configFile = "missing"
       THEN /\ pc' = "Thrown"
            /\ result' = [kind |-> "throw",
                          error |-> "Configuration file \"qa-grader.config.json\" not found in the project root."]
            /\ UNCHANGED config
       ELSE /\ config' = project.componentGrader
            /\ IF config' = Undefined \/ ~config'.run
               THEN /\ pc' = "Done"
                    /\ result' = [kind |-> "return", success |-> TRUE,
                                  score |-> DoubleOne,
                                  report |-> [summary |-> "Skipped"]]
               ELSE /\ pc' = "Globbing"
                    /\ UNCHANGED result
    /\ UNCHANGED <<OutsideComponents, report, fileIdx, ComponentVars>>

\* lines 47-57: find the component files and create the report
FindComponents ==
    /\ pc = "Globbing"
    /\ componentFiles' = globResult
    /\ report' = EmptyComponentReport
    /\ fileIdx' = 1
    /\ pc' = "NextFile"
    /\ UNCHANGED <<OutsideComponents, config, result, lines, lineIndex,
                   mapWithoutKeyLastIndex, inlineStyleLastIndex>>

\* lines 59-66 and 91-95: read the next file and enter analyzeComponent,
\* which splits the text and creates its patterns; a failed read is caught
ReadComponent ==
    /\ pc = "NextFile" /\ fileIdx <= Len(componentFiles)
    /\ LET file == componentFiles[fileIdx]
       IN  IF fs[file].readable
           THEN /\ lines' = SplitLines(fs[file].text)
                /\ lineIndex' = 1
                /\ mapWithoutKeyLastIndex' = 0
                /\ inlineStyleLastIndex' = 0
                /\ pc' = "Analyzing"
                /\ UNCHANGED fileIdx
           ELSE /\ fileIdx' = fileIdx + 1
                /\ UNCHANGED <<pc, lines, lineIndex, mapWithoutKeyLastIndex,
                               inlineStyleLastIndex>>
    /\ UNCHANGED <<OutsideComponents, config, report, result, componentFiles>>

\* lines 97-121: the callback of lines.forEach for one line.  Without
\* config.rules the first read of rules.checkMissingKeys throws, and the
\* catch block of lines 64-66 goes on with the next file.
AnalyzeLine ==
    /\ pc = "Analyzing"
    /\ LET file == componentFiles[fileIdx]
           line == lines[lineIndex]
           rules == config.rules
       IN  IF rules = Undefined
           THEN /\ pc' = "NextFile"
                /\ fileIdx' = fileIdx + 1
                /\ UNCHANGED <<report, lineIndex, mapWithoutKeyLastIndex,
                               inlineStyleLastIndex>>
           ELSE LET keyTest == IF RuleOn(rules, "checkMissingKeys")
                               THEN MapWithoutKeyTest(line, mapWithoutKeyLastIndex)
                               ELSE [found |-> FALSE, lastIndex |-> mapWithoutKeyLastIndex]
                    styleTest == IF RuleOn(rules, "checkInlineStyles")
                                 THEN InlineStyleTest(line, inlineStyleLastIndex)
                                 ELSE [found |-> FALSE, lastIndex |-> inlineStyleLastIndex]
                IN  /\ mapWithoutKeyLastIndex' = keyTest.lastIndex
                    /\ inlineStyleLastIndex' = styleTest.lastIndex
                    /\ report' =
                          [accessibility |->
                              report.accessibility
                              \o AccessibilityIssues(file, line, lineIndex, rules),
                           testIds |->
                              report.testIds \o TestIDIssues(file, line, lineIndex, rules),
                           bestPractices |->
                              report.bestPractices
                              \o (IF keyTest.found
                                  THEN <<[file |-> file, issue |-> MissingKeyIssue,
                                          line |-> lineIndex]>>
                                  ELSE <<>>)
                              \o (IF styleTest.found
                                  THEN <<[file |-> file, issue |-> InlineStyleIssue,
                                          line |-> lineIndex]>>
                                  ELSE <<>>)]
                    /\ IF lineIndex < Len(lines)
                       THEN /\ lineIndex' = lineIndex + 1
                            /\ UNCHANGED <<pc, fileIdx>>
                       ELSE /\ pc' = "NextFile"
                            /\ fileIdx' = fileIdx + 1
                            /\ UNCHANGED lineIndex
    /\ UNCHANGED <<OutsideComponents, config, result, componentFiles, lines>>

\* lines 69-81: the score, the summary and the returned object
ComponentSummarise ==
    /\ pc = "NextFile" /\ fileIdx > Len(componentFiles)
    /\ LET issuesFound == Len(report.accessibility) + Len(report.testIds)
                          + Len(report.bestPractices)
           score == ComponentScore(issuesFound)
           summary == [filesAnalyzed |-> Len(componentFiles),
                       issuesFound |-> issuesFound,
                       overallPassed |-> ScoreAtLeast(score, config.minimumScore)]
       IN  /\ report' = [accessibility |-> report.accessibility,
                         testIds |-> report.testIds,
                         bestPractices |-> report.bestPractices,
                         summary |-> summary]
           /\ result' = [kind |-> "return", success |-> summary.overallPassed,
                         score |-> score, report |-> report']
    /\ pc' = "Done"
    /\ UNCHANGED <<OutsideComponents, config, fileIdx, ComponentVars>>

ComponentNext ==
    \/ ComponentLoadConfig
    \/ FindComponents
    \/ ReadComponent
    \/ AnalyzeLine
    \/ ComponentSummarise

ComponentSpec == ComponentInit /\ [][ComponentNext]_vars

-----------------------------------------------------------------------------
(* The result of gradeComponents                                           *)

\* gradeComponents went through the files and returned
ComponentsGraded ==
    /\ pc = "Done"
    /\ config # Undefined
    /\ config.run

\* the entries of the three lists of the returned report
IssueCount(rep) == Len(rep.accessibility) + Len(rep.testIds) + Len(rep.bestPractices)

\* max(0, 1 - 0.05 n) in hundredths
ExactScoreInHundredths(n) == IF 5 * n > 100 THEN 0 ELSE 100 - 5 * n

\* C21: the score of gradeComponents is max(0, 1 - 0.05 * issuesFound), the
\* number of issues being the number of entries of report.accessibility,
\* report.testIds and report.bestPractices; it lies between 0 and 1; and
\* success is true exactly when the score is at least the configured
\* minimumScore.
C21_ScoreIsOneMinusFiveHundredthsPerIssue ==
    ComponentsGraded =>
        LET n == IssueCount(result.report)
        IN  /\ result.report.summary.issuesFound = n
            /\ result.score = DoubleOfHundredths(ExactScoreInHundredths(n))
            /\ ~LimbsLess(DoubleOne, result.score)
            /\ config.minimumScore # Undefined =>
                  (result.success <=>
                      ExactScoreInHundredths(n) >= config.minimumScore.n)

\* the rule is false or absent in the configuration in hand
RuleOff(name) ==
    \/ config.rules = Undefined
    \/ config.rules[name] \in {Undefined, Bool(FALSE)}

\* the issues that the report in hand holds
ReportedIssues ==
    {report.accessibility[i].issue : i \in 1..Len(report.accessibility)}
    \cup {report.testIds[i].issue : i \in 1..Len(report.testIds)}
    \cup {report.bestPractices[i].issue : i \in 1..Len(report.bestPractices)}

\* C22: an issue of a kind is reported only when its rule is enabled: with
\* checkAccessibilityLabel, checkTestID, checkInlineStyles or
\* checkMissingKeys false or absent, no 'Missing accessibilityLabel',
\* 'Missing testID', 'Inline styles detected' or 'Missing key prop' issue
\* is in the report at any point of the run, whatever the source text.
C22_DisabledRulesReportNothing ==
    (config # Undefined /\ config.run) =>
        /\ RuleOff("checkAccessibilityLabel") => MissingLabelIssue \notin ReportedIssues
        /\ RuleOff("checkTestID") => MissingTestIDIssue \notin ReportedIssues
        /\ RuleOff("checkInlineStyles") => InlineStyleIssue \notin ReportedIssues
        /\ RuleOff("checkMissingKeys") => MissingKeyIssue \notin ReportedIssues

\* a finished run over a file with a Button without attributes, an inline
\* style and a mapped component, in which checkTestID is false,
\* checkInlineStyles and checkMissingKeys are absent, and the enabled
\* checkAccessibilityLabel reported the Button
C22_Witness ==
    /\ ComponentsGraded
    /\ config.rules # Undefined
    /\ config.rules["checkAccessibilityLabel"] = Bool(TRUE)
    /\ config.rules["checkTestID"] = Bool(FALSE)
    /\ config.rules["checkInlineStyles"] = Undefined
    /\ config.rules["checkMissingKeys"] = Bool(FALSE)
    /\ lines = <<ButtonLine, StyleLine>>
    /\ report.accessibility # <<>>
    /\ report.testIds = <<>>
    /\ report.bestPractices = <<>>

\* the line holds an inline style attribute, or a mapped component
HoldsInlineStyle(line) == \E p \in 0..(Len(line) - 1) : InlineStyleEnd(line, p) >= 0
HoldsMappedComponent(line) == \E p \in 0..(Len(line) - 1) : MapWithoutKeyEnd(line, p) >= 0

\* the report has an entry of the issue for the line of the file
Reported(file, issue, lineNumber) ==
    \E i \in 1..Len(report.bestPractices) :
        /\ report.bestPractices[i].file = file
        /\ report.bestPractices[i].issue = issue
        /\ report.bestPractices[i].line = lineNumber

\* C27: with checkInlineStyles enabled, every line of a file that holds an
\* inline style attribute gets an 'Inline styles detected' entry with its
\* line number, whatever the lines before it hold; and with
\* checkMissingKeys enabled the entry for a line with a mapped component
\* does not depend on the lines before it either.
C27_EveryLineIsJudgedOnItsOwn ==
    (ComponentsGraded /\ config.rules # Undefined) =>
        \A f \in 1..Len(componentFiles) :
            LET file == componentFiles[f]
                ls == SplitLines(fs[file].text)
            IN  fs[file].readable =>
                    \A k \in 1..Len(ls) :
                        /\ Truthy(config.rules["checkInlineStyles"]) =>
                              (HoldsInlineStyle(ls[k])
                                  <=> Reported(file, InlineStyleIssue, k))
                        /\ Truthy(config.rules["checkMissingKeys"]) =>
                              (HoldsMappedComponent(ls[k])
                                  <=> Reported(file, MissingKeyIssue, k))

====
